---- MODULE Spec2Model ----
(***************************************************************************)
(* Model of the quest badge compositor (badge_generator.py) and of the     *)
(* icon catalog (icon_provider.py) of the quest bot.                       *)
(*                                                                         *)
(* Strings are modelled at two levels of detail.  A quest identifier is a  *)
(* sequence of characters (it is parsed and hashed).  A text field (title, *)
(* description, action, deadline) is a sequence of words, each word given  *)
(* by its number of characters, separated by runs of `gap' blanks; a font  *)
(* is modelled by the pixel advance of one character.                      *)
(***************************************************************************)
EXTENDS Integers, Sequences, FiniteSets, TLC

\* ------------------------------------------------------------------ bounds
\* Longest quest_id string that is enumerated.
MaxIdLen == 3
\* Number of distinct per-process string-hash salts (PYTHONHASHSEED values).
NumSeeds == 2
\* Width in bits of the modelled str hash (CPython: 64).
HashBits == 12
\* Longest title, in words.
MaxTitleWords == 5
\* Longest description, in words.
MaxDescWords == 11
\* Number of concurrent callers of get_icon_by_category.
NumThreads == 2
\* Pixel advance of one character in the title font (Montserrat-Bold 50).
TitleCharW == 30
\* Pixel advance of one character in the header, body, small and points fonts.
HeaderCharW == 19
BodyCharW == 15
SmallCharW == 14
PointsCharW == 48
\* Pixel advance of the digit 1 in the points font: the figures of Montserrat
\* are proportional, the 1 the narrowest of them.
PointsOneW == 30
\* Longest action, in words.
MaxActionWords == 3
\* Most rows of badge_images that are kept.
MaxRows == 3
\* Submissions, users and handled callbacks of the points ledger.
NumSubs == 2
NumLedgerUsers == 2
MaxCallbacks == 3
\* Admins who create quests, and the most quests that are created.
NumAdmins == 1
MaxQuests == 2
\* Height of the bounding box of a header-font and of a body-font string.
HeaderBoxH == 24
BodyBoxH == 20

\* ------------------------------------------------------------- basic values
NoneVal == [kind |-> "none", val |-> 0, chars |-> <<>>]
IntVal(n) == [kind |-> "int", val |-> n, chars |-> <<>>]
StrVal(cs) == [kind |-> "str", val |-> 0, chars |-> cs]
\* An exception that is not caught and leaves the function that raised it.
RaiseVal == [kind |-> "raise", val |-> 0, chars |-> <<>>]

Min(a, b) == IF a < b THEN a ELSE b
Max(a, b) == IF a > b THEN a ELSE b

RECURSIVE Pow2(_)
Pow2(n) == IF n = 0 THEN 1 ELSE 2 * Pow2(n - 1)

RECURSIVE SumSeq(_)
SumSeq(s) == IF s = <<>> THEN 0 ELSE Head(s) + SumSeq(Tail(s))

RECURSIVE Flatten(_)
Flatten(ss) == IF ss = <<>> THEN <<>> ELSE Head(ss) \o Flatten(Tail(ss))

Last(s) == s[Len(s)]
Front(s) == SubSeq(s, 1, Len(s) - 1)
Take(s, n) == SubSeq(s, 1, Min(n, Len(s)))

\* --------------------------------------------------- characters of quest_id
Digits == {"0", "7"}
Alphabet == Digits \cup {"-", "+", "a", " "}

DigitVal(c) == IF c = "7" THEN 7 ELSE 0
CharCode(c) ==
  CASE c = "0" -> 48 [] c = "7" -> 55 [] c = "-" -> 45
    [] c = "+" -> 43 [] c = "a" -> 97 [] OTHER -> 32

RECURSIVE StripLeft(_)
StripLeft(cs) ==
  IF cs # <<>> /\ Head(cs) = " " THEN StripLeft(Tail(cs)) ELSE cs

RECURSIVE StripRight(_)
StripRight(cs) ==
  IF cs # <<>> /\ Last(cs) = " " THEN StripRight(Front(cs)) ELSE cs

RECURSIVE DigitsValue(_)
DigitsValue(cs) ==
  IF cs = <<>> THEN 0 ELSE 10 * DigitsValue(Front(cs)) + DigitVal(Last(cs))

\* int(s) of a str: blanks around are ignored, one optional sign, then one or
\* more digits; anything else raises ValueError (ok = FALSE).
ParseInt(cs) ==
  LET s == StripRight(StripLeft(cs))
      signed == s # <<>> /\ Head(s) \in {"-", "+"}
      body == IF signed THEN Tail(s) ELSE s
      good == body # <<>> /\ \A i \in 1..Len(body) : body[i] \in Digits
      mag == IF good THEN DigitsValue(body) ELSE 0
  IN [ok |-> good,
      val |-> IF signed /\ Head(s) = "-" THEN 0 - mag ELSE mag]

\* hash(s) of a str: a salted hash of the characters, a signed integer of
\* HashBits bits; the empty string hashes to 0 whatever the salt.
RECURSIVE HashMix(_, _)
HashMix(h, cs) ==
  IF cs = <<>> THEN h
  ELSE HashMix((h * 33 + CharCode(Head(cs))) % Pow2(HashBits), Tail(cs))

PyHash(seed, cs) ==
  IF cs = <<>> THEN 0
  ELSE LET u == HashMix((5381 + 1013 * seed) % Pow2(HashBits), cs)
       IN IF u >= Pow2(HashBits - 1) THEN u - Pow2(HashBits) ELSE u

\* hash(quest_id) % 1000: Python's % takes the sign of the divisor.
HashMod1000(h) == h % 1000

\* '-' in quest_id
HasSeparator(cs) == \E i \in 1..Len(cs) : cs[i] = "-"

\* The derivation without the handler of ValueError.
DeriveNoCatch(q, seed) ==
  IF q.kind # "str" THEN q
  ELSE IF HasSeparator(q.chars)
       THEN IntVal(HashMod1000(PyHash(seed, q.chars)))
       ELSE LET p == ParseInt(q.chars)
            IN IF p.ok THEN IntVal(p.val) ELSE RaiseVal

\* badge_generator.py 233-246: display_id from quest_id.
DeriveDisplayId(q, seed) ==
  IF q.kind # "str" THEN q
  ELSE IF HasSeparator(q.chars)
       THEN IntVal(HashMod1000(PyHash(seed, q.chars)))
       ELSE LET p == ParseInt(q.chars)
            IN IF p.ok THEN IntVal(p.val)
               ELSE IntVal(HashMod1000(PyHash(seed, q.chars)))

\* f"{display_id:03d}": sign, then the decimal digits zero-padded so that the
\* whole field is at least 3 characters wide.
RECURSIVE DecDigits(_)
DecDigits(n) ==
  IF n < 10 THEN <<n>> ELSE Append(DecDigits(n \div 10), n % 10)

RECURSIVE ZeroPad(_, _)
ZeroPad(ds, w) == IF Len(ds) >= w THEN ds ELSE ZeroPad(<<0>> \o ds, w)

Format03d(n) ==
  IF n < 0 THEN [neg |-> TRUE, digits |-> ZeroPad(DecDigits(0 - n), 2)]
  ELSE [neg |-> FALSE, digits |-> ZeroPad(DecDigits(n), 3)]

FieldWidth(f) == Len(f.digits) + (IF f.neg THEN 1 ELSE 0)

\* ------------------------------------------------------------ text fields
\* A str argument: its words (characters per word), the number of blanks
\* between two words, and whether "..." has been appended to it.
Text(ws, g) == [kind |-> "str", words |-> ws, gap |-> g, ell |-> FALSE]
NoneText == [kind |-> "none", words |-> <<>>, gap |-> 1, ell |-> FALSE]

\* s.split(): the words, whatever the blanks between them.
Split(t) == t.words

\* " ".join(words)
Join(ws) == Text(ws, 1)

\* len(s) in characters.
CharLen(t) ==
  IF t.words = <<>> THEN 0
  ELSE SumSeq(t.words) + t.gap * (Len(t.words) - 1) + (IF t.ell THEN 3 ELSE 0)

\* draw.textlength(s, font) for a font whose characters advance cw pixels.
TextLength(t, cw) == CharLen(t) * cw

\* --------------------------------------------------------- card dimensions
width == 800
height == 500
title_max_width == width - 300
TitleY == 160
TitleFontSize == 50
TitlePitch == TitleFontSize - 5
DescWrapWidth == 28
DescWordLimit == 10
TitleWordLimit == 3

\* title.split()[:3]
FirstTitleWords(t) == Take(Split(t), TitleWordLimit)

\* badge_generator.py 283-295: the greedy loop over words[1:].
RECURSIVE TitleWrapLoop(_, _, _)
TitleWrapLoop(rest, current_line, lines) ==
  IF rest = <<>> THEN Append(lines, current_line)
  ELSE LET test_line == Append(current_line, Head(rest))
       IN IF TextLength(Join(test_line), TitleCharW) <= title_max_width
          THEN TitleWrapLoop(Tail(rest), test_line, lines)
          ELSE TitleWrapLoop(Tail(rest), <<Head(rest)>>,
                             Append(lines, current_line))

\* Carrying the overflow into the second line instead of dropping it.
TitleLinesCarry(title_words) ==
  LET ls == TitleWrapLoop(Tail(title_words), <<Head(title_words)>>, <<>>)
  IN IF Len(ls) <= 2 THEN ls
     ELSE <<ls[1], Flatten(SubSeq(ls, 2, Len(ls)))>>

\* badge_generator.py 283-296: the wrapped title, cut to two lines.
TitleLines(title_words) ==
  Take(TitleWrapLoop(Tail(title_words), <<Head(title_words)>>, <<>>), 2)

\* ------------------------------------------------- textwrap.wrap(text, 28)
\* The chunks TextWrapper splits a text into: words and runs of blanks.
Chunks(t) ==
  LET n == Len(t.words)
  IN [i \in 1..(IF n = 0 THEN 0 ELSE 2 * n - 1) |->
        IF i % 2 = 1
        THEN [ws |-> FALSE,
              n |-> t.words[(i + 1) \div 2]
                    + (IF t.ell /\ i = 2 * n - 1 THEN 3 ELSE 0)]
        ELSE [ws |-> TRUE, n |-> t.gap]]

RECURSIVE ChunkLen(_)
ChunkLen(line) == IF line = <<>> THEN 0 ELSE Head(line).n + ChunkLen(Tail(line))

\* The inner loop of _wrap_chunks: take chunks while they fit.
RECURSIVE FillLine(_, _, _)
FillLine(rest, cur_line, w) ==
  IF rest # <<>> /\ ChunkLen(cur_line) + Head(rest).n <= w
  THEN FillLine(Tail(rest), Append(cur_line, Head(rest)), w)
  ELSE [rest |-> rest, line |-> cur_line]

\* _handle_long_word with break_long_words: the head of a chunk longer than
\* the width fills what is left of the line.
HandleLongWord(f, w) ==
  LET space_left == IF w < 1 THEN 1 ELSE w - ChunkLen(f.line)
      chunk == Head(f.rest)
  IN [rest |-> <<[ws |-> chunk.ws, n |-> chunk.n - space_left]>> \o Tail(f.rest),
      line |-> Append(f.line, [ws |-> chunk.ws, n |-> space_left])]

RECURSIVE WrapChunks(_, _, _)
WrapChunks(chunks, lines, w) ==
  IF chunks = <<>> THEN lines
  ELSE LET start == IF Head(chunks).ws /\ lines # <<>>
                    THEN Tail(chunks) ELSE chunks
           f == FillLine(start, <<>>, w)
           g == IF f.rest # <<>> /\ Head(f.rest).n > w
                THEN HandleLongWord(f, w) ELSE f
           cur == IF g.line # <<>> /\ Last(g.line).ws
                  THEN Front(g.line) ELSE g.line
       IN WrapChunks(g.rest, IF cur # <<>> THEN Append(lines, cur) ELSE lines, w)

\* textwrap.wrap(description, width=28): the lines, each a sequence of chunks.
TextWrap(t, w) == WrapChunks(Chunks(t), <<>>, w)

\* Cutting at 10 words without marking the cut.
TruncateNoEllipsis(t) ==
  IF Len(Split(t)) > DescWordLimit
  THEN Join(Take(Split(t), DescWordLimit))
  ELSE t

\* badge_generator.py 314-318: the description that is wrapped.
TruncateDescription(t) ==
  IF Len(Split(t)) > DescWordLimit
  THEN [Join(Take(Split(t), DescWordLimit)) EXCEPT !.ell = TRUE]
  ELSE t

\* ------------------------------------------------- str(quest_id), base64
DigitChar(d) ==
  CASE d = 0 -> "0" [] d = 1 -> "1" [] d = 2 -> "2" [] d = 3 -> "3"
    [] d = 4 -> "4" [] d = 5 -> "5" [] d = 6 -> "6" [] d = 7 -> "7"
    [] d = 8 -> "8" [] OTHER -> "9"

\* str(quest_id)
StrOf(q) ==
  IF q.kind = "str" THEN q.chars
  ELSE IF q.kind = "none" THEN <<"N", "o", "n", "e">>
  ELSE LET ds == DecDigits(IF q.val < 0 THEN 0 - q.val ELSE q.val)
           cs == [i \in 1..Len(ds) |-> DigitChar(ds[i])]
       IN IF q.val < 0 THEN <<"-">> \o cs ELSE cs

\* bool(quest_id)
Truthy(q) ==
  CASE q.kind = "int" -> q.val # 0
    [] q.kind = "str" -> q.chars # <<>>
    [] OTHER -> FALSE

\* badge.save(img_buffer, format='PNG'): the encoded canvas, the stream left
\* positioned after the last byte written.
SavePNG(cv) == [kind |-> "buffer", data |-> cv, pos |-> Len(cv)]
\* img_buffer.seek(0)
Seek0(b) == [b EXCEPT !.pos = 0]
NoBuffer == [kind |-> "none", data |-> <<>>, pos |-> 0]
\* base64.b64encode(img_buffer.getvalue()).decode('utf-8')
B64(b) == [b64 |-> b.data]

\* ---------------------------------------------------------------- fonts
FontFiles == {"Montserrat-Bold.ttf", "Montserrat-ExtraBold.ttf",
              "Montserrat-Medium.ttf"}
\* badge_generator.py 255-260, in the order of loading.
FontLoads ==
  << [font |-> "title_font", file |-> "Montserrat-Bold.ttf", size |-> 50],
     [font |-> "logo_font", file |-> "Montserrat-ExtraBold.ttf", size |-> 65],
     [font |-> "header_font", file |-> "Montserrat-Bold.ttf", size |-> 32],
     [font |-> "body_font", file |-> "Montserrat-Medium.ttf", size |-> 26],
     [font |-> "small_font", file |-> "Montserrat-Medium.ttf", size |-> 24],
     [font |-> "points_font", file |-> "Montserrat-Bold.ttf", size |-> 80] >>

\* ---------------------------------------------------------------- icons
NoIcon == [kind |-> "none", mode |-> "", w |-> 0, h |-> 0]
Icon(m, iw, ih) == [kind |-> "image", mode |-> m, w |-> iw, h |-> ih]

\* ------------------------------------------------- pill and action geometry
LeftMargin == 40
LabelGap == 25
ButtonPad == 80
button_height == 70
ButtonRight == 60
ButtonBottom == 50
ActionMargin == 30
BodyFontSize == 26
DescPitch == 35
DescGap == 40
DescYSingle == 230
InfoGap == 40
InfoFromBottom == 180
DeadlineGap == 10
DeadlineSingle == 40
IconGap == 20
ActionWordCut == 10

\* str(points) in characters.
PointsChars(p) == Len(StrOf(IntVal(p)))
\* The advance of one character of str(points) in the points font.
PointsAdvance(c) == IF c = "1" THEN PointsOneW ELSE PointsCharW
\* badge_generator.py 347-353
points_width(p) ==
  LET points_text == StrOf(IntVal(p))
  IN SumSeq([i \in 1..Len(points_text) |-> PointsAdvance(points_text[i])])
\* A pill sized once for three digits, whatever the text measures.
FixedButtonWidth(p) == 3 * PointsCharW + ButtonPad
button_width(p) == points_width(p) + ButtonPad
button_x(p) == width - button_width(p) - ButtonRight
button_y == height - button_height - ButtonBottom
\* badge_generator.py 334-335: "Action:" has 7 characters.
action_x == LeftMargin + 7 * HeaderCharW + LabelGap
\* badge_generator.py 400-401: "Deadline:" has 9 characters.
deadline_x == LeftMargin + 9 * HeaderCharW + LabelGap
\* badge_generator.py 356
max_action_width(p) == button_x(p) - action_x - ActionMargin
\* badge_generator.py 338-340, in thousandths of a pixel:
\* (header bbox height * 0.75 - body bbox height * 0.75) / 2.
action_y_offset == ((HeaderBoxH - BodyBoxH) * 750) \div 2
\* body_font.size * 0.8, in thousandths of a pixel.
ActionPitch == BodyFontSize * 800

\* badge_generator.py 365-379: the action wrapping loop; a line is a text.
RECURSIVE ActionWrapLoop(_, _, _, _)
ActionWrapLoop(rest, current_line, wrapped_action, maxw) ==
  IF rest = <<>>
  THEN IF current_line # <<>>
       THEN Append(wrapped_action, Join(current_line)) ELSE wrapped_action
  ELSE LET word == Head(rest)
           test_line == Append(current_line, word)
       IN IF TextLength(Join(test_line), BodyCharW) <= maxw
          THEN ActionWrapLoop(Tail(rest), test_line, wrapped_action, maxw)
          ELSE IF current_line # <<>>
               THEN ActionWrapLoop(Tail(rest), <<word>>,
                                   Append(wrapped_action, Join(current_line)),
                                   maxw)
               ELSE Append(wrapped_action,
                           [Join(<<Min(word, ActionWordCut)>>) EXCEPT !.ell = TRUE])

\* badge_generator.py 469-480: the icon box and where it is pasted.
target_icon_size(p) == (button_width(p) * 3) \div 2
icon_center_x(p) == button_x(p) + (button_width(p) \div 2) - (target_icon_size(p) \div 2)
icon_center_y(p) == button_y - target_icon_size(p) - IconGap

\* Image.thumbnail((t, t)): shrink to fit the box keeping the aspect ratio,
\* never enlarge.
Thumbnail(ic, t) ==
  IF ic.w <= t /\ ic.h <= t THEN ic
  ELSE IF ic.w >= ic.h
       THEN [ic EXCEPT !.w = t, !.h = Max(1, (ic.h * t + ic.w \div 2) \div ic.w)]
       ELSE [ic EXCEPT !.h = t, !.w = Max(1, (ic.w * t + ic.h \div 2) \div ic.h)]

\* ------------------------------------------------------------------ state
VARIABLES
  hashseed,         \* the salt of str hashes of the running process
  supabase_client,  \* badge_generator.supabase_client: set (TRUE) or None
  font_files,       \* the font files that can be loaded from fonts/
  serializable,     \* whether the PNG encoder can encode the canvas
  badge_images,     \* the rows of the remote table badge_images
  request,          \* the arguments of generate_quest_badge
  pc,               \* the position inside generate_quest_badge
  display_id,       \* local display_id
  title,            \* local title (rebound at line 278)
  description,      \* local description (rebound at line 318)
  badge,            \* the canvas: the drawing operations applied, in order
  desc_y,           \* local desc_y
  info_y,           \* local info_y
  deadline_y,       \* local deadline_y: <<pixels, thousandths>>
  img_buffer,       \* local img_buffer
  select_result,    \* local result (rows returned by the select)
  returned,         \* what the call returned
  escaped,          \* the exception that left the call, "" when none
  log,              \* the records logged by the current call
  shown             \* every quest-id tag drawn so far for this quest

badge_vars ==
  << hashseed, supabase_client, font_files, serializable, badge_images,
     request, pc, display_id, title, description, badge, desc_y, info_y,
     deadline_y, img_buffer, select_result, returned, escaped, log, shown >>

VARIABLES
  ICON_CACHE,     \* icon_provider.ICON_CACHE: category -> decoded image
  icon_files,     \* the files of fonts/Color Symbols: ok, missing or corrupt
  ipc,            \* per caller: the position inside get_icon_by_category
  icon_arg,       \* per caller: the category the caller asked for
  category,       \* per caller: local category of the innermost call
  depth,          \* per caller: how many fallback calls are nested
  icon,           \* per caller: local icon (the image just decoded)
  icon_result,    \* per caller: what the outermost call returned
  icon_escaped    \* per caller: the exception that left the call, "" when none

icon_vars ==
  << ICON_CACHE, icon_files, ipc, icon_arg, category, depth, icon, icon_result,
     icon_escaped >>

VARIABLES
  upc,          \* where a call of generate_and_store_badge stands
  u_quest_id,   \* the quest_id argument of generate_and_store_badge
  u_returned    \* what generate_and_store_badge returned

utils_vars == << upc, u_quest_id, u_returned >>

VARIABLES
  submissions,    \* the rows of the table submissions, by id
  total_points,   \* users.total_points, by user id
  callbacks,      \* how many approve_/reject_ callbacks were handled
  db_failed,      \* whether a request of such a callback has failed so far
  user_sessions,  \* zo_quest_bot.user_sessions, by user id
  quests,         \* how many rows the table quests holds
  update          \* the update the bot handled last

ledger_vars == << submissions, total_points, callbacks, db_failed >>
session_vars == << user_sessions, quests, update >>
bot_vars == << ledger_vars, session_vars >>

\* ----------------------------------------------------------------- inputs
Seeds == 0..(NumSeeds - 1)

QuestIdStrings ==
  UNION {[1..n -> Alphabet] : n \in 0..MaxIdLen}
QuestIdInts == {0 - 5, 0, 7, 209, 999, 1000, 12345}
QuestIds ==
  {StrVal(cs) : cs \in QuestIdStrings} \cup {IntVal(n) : n \in QuestIdInts}
    \cup {NoneVal}

TitleWordLens == {2, 7, 18}
Titles ==
  {Text(ws, 1) : ws \in UNION {[1..n -> TitleWordLens] : n \in 0..MaxTitleWords}}

\* Every short description, the long ones with at most one long word, and
\* those of nine-letter words, which wrap two to a line.
DescWordSeqs ==
  UNION {[1..n -> {1, 9, 30}] : n \in 0..3}
    \cup {[i \in 1..n |-> w] : n \in 0..MaxDescWords, w \in {4, 9}}
    \cup {[i \in 1..n |-> IF i = k THEN 30 ELSE 4] :
            n \in 1..MaxDescWords, k \in 1..MaxDescWords}
Descriptions == {Text(ws, g) : ws \in DescWordSeqs, g \in {1, 2}}

DefaultTitle == Text(<<4, 7>>, 1)
DefaultDescription == Text(<<4, 1, 6, 4, 7, 2, 2, 6>>, 1)
DefaultAction == Text(<<5, 2, 3, 8, 5>>, 1)
DefaultDeadline == Text(<<10>>, 1)
DefaultRequest ==
  [title |-> DefaultTitle, description |-> DefaultDescription,
   action |-> DefaultAction, deadline |-> DefaultDeadline,
   quest_id |-> IntVal(1), points |-> 420, icon_image |-> NoIcon]

Icons == {NoIcon, Icon("RGBA", 150, 150), Icon("P", 600, 300)}

\* Actions of short, medium and long words; points of one to seven digits.
ActionWordLens == {3, 12, 25}
Actions ==
  {Text(ws, 1) : ws \in UNION {[1..n -> ActionWordLens] : n \in 0..MaxActionWords}}
PointsValues == {0 - 5, 0, 9, 88, 111, 420, 999, 1000, 1234567}

\* Requests that vary one argument at a time.
SliceRequests ==
  {[DefaultRequest EXCEPT !.quest_id = q] : q \in QuestIds}
    \cup {[DefaultRequest EXCEPT !.title = t] : t \in Titles}
    \cup {[DefaultRequest EXCEPT !.description = d] : d \in Descriptions}
    \cup {[DefaultRequest EXCEPT !.action = a, !.points = p] :
            a \in Actions, p \in PointsValues}

\* A product of a few values of every argument.
ProductRequests ==
  [title : {DefaultTitle, NoneText},
   description : {DefaultDescription},
   action : {DefaultAction, Text(<<12, 20, 3>>, 1)},
   deadline : {DefaultDeadline},
   quest_id : {IntVal(209), StrVal(<<"a", "-", "7">>), StrVal(<<>>)},
   points : {9, 999},
   icon_image : Icons]

\* The environment in which every asset is present and nothing is stored.
PlainEnv == [fonts |-> FontFiles, client |-> FALSE, png |-> TRUE]
Envs == [fonts : SUBSET FontFiles, client : BOOLEAN, png : BOOLEAN]

NoLocals ==
  /\ pc = "idle"
  /\ display_id = NoneVal
  /\ title = NoneText
  /\ description = NoneText
  /\ badge = <<>>
  /\ desc_y = 0
  /\ info_y = 0
  /\ deadline_y = <<0, 0>>
  /\ img_buffer = NoBuffer
  /\ select_result = <<>>
  /\ returned = NoBuffer
  /\ escaped = ""
  /\ log = <<>>

BadgeInit ==
  /\ hashseed \in Seeds
  /\ \E r \in SliceRequests \cup ProductRequests, e \in Envs :
       /\ r \in ProductRequests \/ e = PlainEnv
       /\ request = r
       /\ supabase_client = e.client
       /\ font_files = e.fonts
       /\ serializable = e.png
  /\ badge_images = <<>>
  /\ shown = {}
  /\ NoLocals

\* --------------------------------------------------- generate_quest_badge
env_vars == << supabase_client, font_files, serializable, request >>
layout_vars == << desc_y, info_y, deadline_y >>

LogRec(lv, m, e) == [level |-> lv, msg |-> m, exc |-> e]
Op(o, r, px, py, fr, b) ==
  [op |-> o, role |-> r, x |-> px, y |-> py, frac |-> fr, body |-> b]

\* badge_generator.py 534-536: the handler of the outer try.
Raise(e) ==
  /\ returned' = NoBuffer
  /\ log' = Append(log, LogRec("error", "Error generating badge", e))
  /\ pc' = "done"

\* badge_generator.py 229-246: the call, and display_id, computed before the
\* outer try is entered.
Enter ==
  /\ pc \in {"idle", "done"}
  /\ LET d == DeriveDisplayId(request.quest_id, hashseed)
     IN /\ display_id' = d
        /\ IF d.kind = "raise"
           THEN pc' = "done" /\ escaped' = "ValueError"
           ELSE pc' = "create_badge" /\ escaped' = ""
  /\ title' = request.title
  /\ description' = request.description
  /\ badge' = <<>>
  /\ desc_y' = 0 /\ info_y' = 0 /\ deadline_y' = <<0, 0>>
  /\ img_buffer' = NoBuffer
  /\ select_result' = <<>>
  /\ returned' = NoBuffer
  /\ log' = <<>>
  /\ UNCHANGED << hashseed, env_vars, badge_images, shown >>

\* A call by a caller other than generate_and_store_badge (the bot's preview
\* and confirmation handlers, the test script).
Call ==
  /\ upc # "generate"
  /\ Enter
  /\ UNCHANGED icon_vars
  /\ UNCHANGED utils_vars
  /\ UNCHANGED bot_vars

\* A canvas of the size of the card, without the margin of the shadow.
CardSizedCanvas(w, h) ==
  [size |-> << w, h >>, mode |-> "RGBA", card |-> << w, h >>]

\* badge_generator.py 40-144: the RGBA base layer of (width+20, height+20),
\* on which the card of (width, height) is pasted at (10, 10).
create_premium_badge(w, h) ==
  [size |-> << w + 20, h + 20 >>, mode |-> "RGBA", card |-> << w, h >>]

\* badge_generator.py 250-251
CreateBadge ==
  /\ pc = "create_badge"
  /\ \E ok \in BOOLEAN :
       IF ok
       THEN /\ badge' = << Op("card", "card", 10, 10, 0, create_premium_badge(width, height)) >>
            /\ pc' = "load_fonts"
            /\ UNCHANGED << returned, log >>
       ELSE Raise("Exception") /\ UNCHANGED badge
  /\ UNCHANGED << hashseed, env_vars, badge_images, shown, display_id, title,
                  description, layout_vars, img_buffer, select_result, escaped >>
  /\ UNCHANGED icon_vars
  /\ UNCHANGED utils_vars
  /\ UNCHANGED bot_vars

\* A loader that only needs the title and logo fonts.
MissingFirstTwoFonts == {i \in 1..2 : FontLoads[i].file \notin font_files}

\* The fonts that cannot be loaded, as indexes of FontLoads.
MissingFonts == {i \in 1..Len(FontLoads) : FontLoads[i].file \notin font_files}

\* badge_generator.py 254-263
LoadFonts ==
  /\ pc = "load_fonts"
  /\ IF MissingFonts # {}
     THEN /\ log' = Append(log, LogRec("error", "Failed to load fonts", "IOError"))
          /\ returned' = NoBuffer
          /\ pc' = "done"
     ELSE /\ pc' = "draw_logo"
          /\ UNCHANGED << returned, log >>
  /\ UNCHANGED << hashseed, env_vars, badge_images, shown, display_id, title,
                  description, badge, layout_vars, img_buffer, select_result,
                  escaped >>
  /\ UNCHANGED icon_vars
  /\ UNCHANGED utils_vars
  /\ UNCHANGED bot_vars

\* badge_generator.py 266
DrawLogo ==
  /\ pc = "draw_logo"
  /\ \E ok \in BOOLEAN :
       IF ok
       THEN /\ badge' = Append(badge, Op("text", "logo", LeftMargin, 30, 0, <<>>))
            /\ pc' = "draw_id"
            /\ UNCHANGED << returned, log >>
       ELSE Raise("Exception") /\ UNCHANGED badge
  /\ UNCHANGED << hashseed, env_vars, badge_images, shown, display_id, title,
                  description, layout_vars, img_buffer, select_result, escaped >>
  /\ UNCHANGED icon_vars
  /\ UNCHANGED utils_vars
  /\ UNCHANGED bot_vars

\* badge_generator.py 269-271: "Quest ID: " has 10 characters.
DrawQuestId ==
  /\ pc = "draw_id"
  /\ \E ok \in BOOLEAN :
       IF display_id.kind # "int"
       THEN Raise("TypeError") /\ UNCHANGED << badge, shown >>
       ELSE IF ok
       THEN LET id_text == Format03d(display_id.val)
                id_width == (10 + FieldWidth(id_text)) * SmallCharW
            IN /\ badge' = Append(badge, Op("text", "quest_id",
                                            width - 40 - id_width, 40, 0, id_text))
               /\ shown' = shown \cup {id_text}
               /\ pc' = "draw_title"
               /\ UNCHANGED << returned, log >>
       ELSE Raise("Exception") /\ UNCHANGED << badge, shown >>
  /\ UNCHANGED << hashseed, env_vars, badge_images, display_id, title,
                  description, layout_vars, img_buffer, select_result, escaped >>
  /\ UNCHANGED icon_vars
  /\ UNCHANGED utils_vars
  /\ UNCHANGED bot_vars

\* The operations that draw the lines ls one below the other from y0.
LineOps(role, ls, px, y0, pitch) ==
  [i \in 1..Len(ls) |-> Op("text", role, px, y0 + pitch * (i - 1), 0, ls[i])]

\* badge_generator.py 273-309
DrawTitle ==
  /\ pc = "draw_title"
  /\ \E ok \in BOOLEAN :
       IF title.kind # "str"
       THEN Raise("AttributeError") /\ UNCHANGED << badge, title, desc_y >>
       ELSE IF ok
       THEN LET title_words == FirstTitleWords(title)
                joined == Join(title_words)
            IN /\ title' = joined
               /\ IF TextLength(joined, TitleCharW) > title_max_width
                  THEN LET lines == TitleLines(title_words)
                       IN /\ badge' = badge \o
                               LineOps("title", [i \in 1..Len(lines) |-> Join(lines[i])],
                                       LeftMargin, TitleY, TitlePitch)
                          /\ desc_y' = TitleY + TitlePitch * Len(lines) + DescGap
                  ELSE /\ badge' = Append(badge,
                               Op("text", "title", LeftMargin, TitleY, 0, joined))
                       /\ desc_y' = DescYSingle
               /\ pc' = "draw_description"
               /\ UNCHANGED << returned, log >>
       ELSE Raise("Exception") /\ UNCHANGED << badge, title, desc_y >>
  /\ UNCHANGED << hashseed, env_vars, badge_images, shown, display_id,
                  description, info_y, deadline_y, img_buffer, select_result,
                  escaped >>
  /\ UNCHANGED icon_vars
  /\ UNCHANGED utils_vars
  /\ UNCHANGED bot_vars

\* badge_generator.py 311-324
DrawDescription ==
  /\ pc = "draw_description"
  /\ \E ok \in BOOLEAN :
       IF description.kind # "str"
       THEN Raise("AttributeError") /\ UNCHANGED << badge, description, desc_y >>
       ELSE IF ok
       THEN LET truncated == TruncateDescription(description)
                wrapped_text == TextWrap(truncated, DescWrapWidth)
            IN /\ description' = truncated
               /\ badge' = badge \o
                    LineOps("description", wrapped_text, LeftMargin, desc_y, DescPitch)
               /\ desc_y' = desc_y + DescPitch * Len(wrapped_text)
               /\ pc' = "draw_action_label"
               /\ UNCHANGED << returned, log >>
       ELSE Raise("Exception") /\ UNCHANGED << badge, description, desc_y >>
  /\ UNCHANGED << hashseed, env_vars, badge_images, shown, display_id, title,
                  info_y, deadline_y, img_buffer, select_result, escaped >>
  /\ UNCHANGED icon_vars
  /\ UNCHANGED utils_vars
  /\ UNCHANGED bot_vars

\* badge_generator.py 326-340
DrawActionLabel ==
  /\ pc = "draw_action_label"
  /\ \E ok \in BOOLEAN :
       IF ok /\ request.action.kind = "str"
       THEN /\ info_y' = Max(desc_y + InfoGap, height - InfoFromBottom)
            /\ badge' = Append(badge,
                 Op("text", "action_label", LeftMargin,
                    Max(desc_y + InfoGap, height - InfoFromBottom), 0, <<>>))
            /\ pc' = "draw_action"
            /\ UNCHANGED << returned, log >>
       ELSE Raise(IF ok THEN "TypeError" ELSE "Exception")
            /\ UNCHANGED << badge, info_y >>
  /\ UNCHANGED << hashseed, env_vars, badge_images, shown, display_id, title,
                  description, desc_y, deadline_y, img_buffer, select_result,
                  escaped >>
  /\ UNCHANGED icon_vars
  /\ UNCHANGED utils_vars
  /\ UNCHANGED bot_vars

\* badge_generator.py 342-394
DrawAction ==
  /\ pc = "draw_action"
  /\ \E ok \in BOOLEAN :
       IF ok
       THEN LET maxw == max_action_width(request.points)
            IN /\ IF TextLength(request.action, BodyCharW) > maxw
                  THEN LET wrapped_action ==
                             ActionWrapLoop(Split(request.action), <<>>, <<>>, maxw)
                       IN /\ badge' = badge \o
                               [i \in 1..Len(wrapped_action) |->
                                  Op("text", "action", action_x, info_y,
                                     action_y_offset + ActionPitch * (i - 1),
                                     wrapped_action[i])]
                          /\ deadline_y' =
                               << info_y + DeadlineGap,
                                  action_y_offset + ActionPitch * Len(wrapped_action) >>
                  ELSE /\ badge' = Append(badge,
                               Op("text", "action", action_x, info_y,
                                  action_y_offset, request.action))
                       /\ deadline_y' = << info_y + DeadlineSingle, 0 >>
               /\ pc' = "draw_deadline"
               /\ UNCHANGED << returned, log >>
       ELSE Raise("Exception") /\ UNCHANGED << badge, deadline_y >>
  /\ UNCHANGED << hashseed, env_vars, badge_images, shown, display_id, title,
                  description, desc_y, info_y, img_buffer, select_result, escaped >>
  /\ UNCHANGED icon_vars
  /\ UNCHANGED utils_vars
  /\ UNCHANGED bot_vars

\* badge_generator.py 396-408
DrawDeadline ==
  /\ pc = "draw_deadline"
  /\ \E ok \in BOOLEAN :
       IF ok /\ request.deadline.kind = "str"
       THEN /\ badge' = badge \o
                 << Op("text", "deadline_label", LeftMargin,
                       deadline_y[1], deadline_y[2], <<>>),
                    Op("text", "deadline", deadline_x,
                       deadline_y[1], deadline_y[2] + action_y_offset,
                       request.deadline) >>
            /\ pc' = "render_pill"
            /\ UNCHANGED << returned, log >>
       ELSE Raise(IF ok THEN "TypeError" ELSE "Exception") /\ UNCHANGED badge
  /\ UNCHANGED << hashseed, env_vars, badge_images, shown, display_id, title,
                  description, layout_vars, img_buffer, select_result, escaped >>
  /\ UNCHANGED icon_vars
  /\ UNCHANGED utils_vars
  /\ UNCHANGED bot_vars

\* badge_generator.py 410-463
RenderPill ==
  /\ pc = "render_pill"
  /\ \E ok \in BOOLEAN :
       IF ok
       THEN /\ badge' = badge \o
                 << Op("paste", "pill_shadow", button_x(request.points) - 3,
                       button_y - 3, 0,
                       << button_width(request.points) + 6, button_height + 6 >>),
                    Op("paste", "pill", button_x(request.points), button_y, 0,
                       << button_width(request.points), button_height >>) >>
            /\ pc' = "place_icon"
            /\ UNCHANGED << returned, log >>
       ELSE Raise("Exception") /\ UNCHANGED badge
  /\ UNCHANGED << hashseed, env_vars, badge_images, shown, display_id, title,
                  description, layout_vars, img_buffer, select_result, escaped >>
  /\ UNCHANGED icon_vars
  /\ UNCHANGED utils_vars
  /\ UNCHANGED bot_vars

\* The steps of icon placement that can raise for the icon ic.
IconSteps(ic) ==
  (IF ic.mode # "RGBA" THEN {"convert"} ELSE {}) \cup {"copy", "thumbnail", "paste"}

\* Icon placement whose handler logs the failure and gives the render up.
PlaceIconFatal ==
  /\ pc = "place_icon"
  /\ LET ic == request.icon_image
     IN IF ic.kind = "none"
        THEN pc' = "store" /\ UNCHANGED << badge, log, returned >>
        ELSE \E failing \in IconSteps(ic) \cup {"none"} :
               IF failing = "none"
               THEN LET icon_resized ==
                          Thumbnail([ic EXCEPT !.mode = "RGBA"],
                                    target_icon_size(request.points))
                    IN /\ badge' = Append(badge,
                            Op("paste", "icon", icon_center_x(request.points),
                               icon_center_y(request.points), 0,
                               << icon_resized.w, icon_resized.h >>))
                       /\ log' = Append(log, LogRec("info", "Pasted centered icon", ""))
                       /\ pc' = "store"
                       /\ UNCHANGED returned
               ELSE /\ log' = Append(log, LogRec("error", "Error placing icon", failing))
                    /\ returned' = NoBuffer
                    /\ pc' = "done"
                    /\ UNCHANGED badge
  /\ UNCHANGED << hashseed, env_vars, badge_images, shown, display_id, title,
                  description, layout_vars, img_buffer, select_result, escaped >>
  /\ UNCHANGED icon_vars
  /\ UNCHANGED utils_vars
  /\ UNCHANGED bot_vars

\* Icon placement without the test of line 466: the steps run on None too.
PlaceIconUnguarded ==
  /\ pc = "place_icon"
  /\ LET ic == request.icon_image
     IN IF ic.kind = "none"
        THEN /\ log' = Append(log, LogRec("error", "Error placing icon",
                                          "AttributeError"))
             /\ UNCHANGED badge
        ELSE \E failing \in IconSteps(ic) \cup {"none"} :
               IF failing = "none"
               THEN LET icon_resized ==
                          Thumbnail([ic EXCEPT !.mode = "RGBA"],
                                    target_icon_size(request.points))
                    IN /\ badge' = Append(badge,
                            Op("paste", "icon", icon_center_x(request.points),
                               icon_center_y(request.points), 0,
                               << icon_resized.w, icon_resized.h >>))
                       /\ log' = Append(log, LogRec("info", "Pasted centered icon", ""))
               ELSE /\ log' = Append(log, LogRec("error", "Error placing icon", failing))
                    /\ UNCHANGED badge
  /\ pc' = "store"
  /\ UNCHANGED << hashseed, env_vars, badge_images, shown, display_id, title,
                  description, layout_vars, img_buffer, select_result, returned,
                  escaped >>
  /\ UNCHANGED icon_vars
  /\ UNCHANGED utils_vars
  /\ UNCHANGED bot_vars

\* Icon placement that converts and shrinks the caller's image itself
\* instead of a copy of it.
PlaceIconInPlace ==
  /\ pc = "place_icon"
  /\ LET ic == request.icon_image
     IN IF ic.kind = "none"
        THEN UNCHANGED << badge, log, request >>
        ELSE \E failing \in IconSteps(ic) \cup {"none"} :
               IF failing = "none"
               THEN LET icon_resized ==
                          Thumbnail([ic EXCEPT !.mode = "RGBA"],
                                    target_icon_size(request.points))
                    IN /\ badge' = Append(badge,
                            Op("paste", "icon", icon_center_x(request.points),
                               icon_center_y(request.points), 0,
                               << icon_resized.w, icon_resized.h >>))
                       /\ request' = [request EXCEPT !.icon_image = icon_resized]
                       /\ log' = Append(log, LogRec("info", "Pasted centered icon", ""))
               ELSE /\ log' = Append(log, LogRec("error", "Error placing icon", failing))
                    /\ UNCHANGED << badge, request >>
  /\ pc' = "store"
  /\ UNCHANGED << hashseed, supabase_client, font_files, serializable,
                  badge_images, shown, display_id, title,
                  description, layout_vars, img_buffer, select_result, returned,
                  escaped >>
  /\ UNCHANGED icon_vars
  /\ UNCHANGED utils_vars
  /\ UNCHANGED bot_vars

\* badge_generator.py 465-487
PlaceIcon ==
  /\ pc = "place_icon"
  /\ LET ic == request.icon_image
     IN IF ic.kind = "none"
        THEN UNCHANGED << badge, log >>
        ELSE \E failing \in IconSteps(ic) \cup {"none"} :
               IF failing = "none"
               THEN LET icon_resized ==
                          Thumbnail([ic EXCEPT !.mode = "RGBA"],
                                    target_icon_size(request.points))
                    IN /\ badge' = Append(badge,
                            Op("paste", "icon", icon_center_x(request.points),
                               icon_center_y(request.points), 0,
                               << icon_resized.w, icon_resized.h >>))
                       /\ log' = Append(log, LogRec("info", "Pasted centered icon", ""))
               ELSE /\ log' = Append(log, LogRec("error", "Error placing icon", failing))
                    /\ UNCHANGED badge
  /\ pc' = "store"
  /\ UNCHANGED << hashseed, env_vars, badge_images, shown, display_id, title,
                  description, layout_vars, img_buffer, select_result, returned,
                  escaped >>
  /\ UNCHANGED icon_vars
  /\ UNCHANGED utils_vars
  /\ UNCHANGED bot_vars

\* The rows of the table whose quest_id is key.
RowsOf(rows, key) ==
  LET RECURSIVE Sel(_)
      Sel(rs) == IF rs = <<>> THEN <<>>
                 ELSE IF Head(rs).quest_id = key
                      THEN <<Head(rs)>> \o Sel(Tail(rs)) ELSE Sel(Tail(rs))
  IN Sel(rows)

\* update({"image_data": d}).eq("quest_id", key)
UpdateRows(rows, key, d) ==
  [i \in 1..Len(rows) |->
     IF rows[i].quest_id = key THEN [rows[i] EXCEPT !.image_data = d] ELSE rows[i]]

\* badge_generator.py 489-504: the guard of the storage step and the
\* serialization inside its try.
StoreSave ==
  /\ pc = "store"
  /\ IF supabase_client /\ Truthy(request.quest_id)
     THEN IF serializable
          THEN /\ img_buffer' = Seek0(SavePNG(badge))
               /\ pc' = "store_select"
               /\ UNCHANGED log
          ELSE /\ log' = Append(log, LogRec("error", "Error saving badge to Supabase",
                                            "save"))
               /\ pc' = "finalize"
               /\ UNCHANGED img_buffer
     ELSE /\ pc' = "finalize"
          /\ UNCHANGED << img_buffer, log >>
  /\ UNCHANGED << hashseed, env_vars, badge_images, shown, display_id, title,
                  description, badge, layout_vars, select_result, returned,
                  escaped >>
  /\ UNCHANGED icon_vars
  /\ UNCHANGED utils_vars
  /\ UNCHANGED bot_vars

\* A select whose handler logs the failure and returns None.
StoreSelectFatal ==
  /\ pc = "store_select"
  /\ \E ok \in BOOLEAN :
       IF ok
       THEN /\ select_result' = RowsOf(badge_images, StrOf(request.quest_id))
            /\ pc' = "store_write"
            /\ UNCHANGED << log, returned >>
       ELSE /\ log' = Append(log, LogRec("error", "Error saving badge to Supabase",
                                         "select"))
            /\ returned' = NoBuffer
            /\ pc' = "done"
            /\ UNCHANGED select_result
  /\ UNCHANGED << hashseed, env_vars, badge_images, shown, display_id, title,
                  description, badge, layout_vars, img_buffer, escaped >>
  /\ UNCHANGED icon_vars
  /\ UNCHANGED utils_vars
  /\ UNCHANGED bot_vars

\* badge_generator.py 507
StoreSelect ==
  /\ pc = "store_select"
  /\ \E ok \in BOOLEAN :
       IF ok
       THEN /\ select_result' = RowsOf(badge_images, StrOf(request.quest_id))
            /\ pc' = "store_write"
            /\ UNCHANGED log
       ELSE /\ log' = Append(log, LogRec("error", "Error saving badge to Supabase",
                                         "select"))
            /\ pc' = "finalize"
            /\ UNCHANGED select_result
  /\ UNCHANGED << hashseed, env_vars, badge_images, shown, display_id, title,
                  description, badge, layout_vars, img_buffer, returned, escaped >>
  /\ UNCHANGED icon_vars
  /\ UNCHANGED utils_vars
  /\ UNCHANGED bot_vars

\* badge_generator.py 509-524
StoreWrite ==
  /\ pc = "store_write"
  /\ LET key == StrOf(request.quest_id)
         img_data == B64(img_buffer)
     IN \E ok \in BOOLEAN :
          IF ok
          THEN /\ IF select_result # <<>>
                  THEN /\ badge_images' = UpdateRows(badge_images, key, img_data)
                       /\ log' = Append(log, LogRec("info", "Updated badge image", ""))
                  ELSE /\ badge_images' = Append(badge_images,
                            [quest_id |-> key, image_data |-> img_data])
                       /\ log' = Append(log, LogRec("info", "Inserted badge image", ""))
               /\ returned' = Seek0(img_buffer)
               /\ pc' = "done"
          ELSE /\ log' = Append(log, LogRec("error", "Error saving badge to Supabase",
                                            IF select_result # <<>> THEN "update"
                                            ELSE "insert"))
               /\ pc' = "finalize"
               /\ UNCHANGED << badge_images, returned >>
  /\ UNCHANGED << hashseed, env_vars, shown, display_id, title, description,
                  badge, layout_vars, img_buffer, select_result, escaped >>
  /\ UNCHANGED icon_vars
  /\ UNCHANGED utils_vars
  /\ UNCHANGED bot_vars

\* badge_generator.py 526-532
Finalize ==
  /\ pc = "finalize"
  /\ IF serializable
     THEN /\ img_buffer' = Seek0(SavePNG(badge))
          /\ returned' = Seek0(SavePNG(badge))
          /\ log' = Append(log, LogRec("info", "Badge generated successfully", ""))
          /\ pc' = "done"
     ELSE Raise("save") /\ UNCHANGED img_buffer
  /\ UNCHANGED << hashseed, env_vars, badge_images, shown, display_id, title,
                  description, badge, layout_vars, select_result, escaped >>
  /\ UNCHANGED icon_vars
  /\ UNCHANGED utils_vars
  /\ UNCHANGED bot_vars

\* The process is started again: the locals are gone and str hashes are
\* salted anew; the remote table and the assets stay.
Restart ==
  /\ pc \in {"idle", "done"}
  /\ upc # "generate"
  /\ hashseed' \in Seeds \ {hashseed}
  /\ pc' = "idle"
  /\ display_id' = NoneVal
  /\ title' = NoneText
  /\ description' = NoneText
  /\ badge' = <<>>
  /\ desc_y' = 0 /\ info_y' = 0 /\ deadline_y' = <<0, 0>>
  /\ img_buffer' = NoBuffer
  /\ select_result' = <<>>
  /\ returned' = NoBuffer
  /\ escaped' = ""
  /\ log' = <<>>
  /\ UNCHANGED << env_vars, badge_images, shown >>
  /\ UNCHANGED icon_vars
  /\ UNCHANGED utils_vars
  /\ UNCHANGED bot_vars

BadgeNext ==
  \/ Call
  \/ CreateBadge
  \/ LoadFonts
  \/ DrawLogo
  \/ DrawQuestId
  \/ DrawTitle
  \/ DrawDescription
  \/ DrawActionLabel
  \/ DrawAction
  \/ DrawDeadline
  \/ RenderPill
  \/ PlaceIcon
  \/ StoreSave
  \/ StoreSelect
  \/ StoreWrite
  \/ Finalize
  \/ Restart

\* ------------------------------------------- generate_and_store_badge
\* badge_utils.py 42 and zo_quest_bot.py 1501: the identifier of a preview is
\* the text "preview_" followed by the decimal digits of an integer (the hash
\* of the title, or the time in seconds).
PreviewSuffixes == {<<"7">>, <<"7", "0">>}
PreviewId(sfx) == StrVal(<<"p", "r", "e", "v", "i", "e", "w", "_">> \o sfx)

\* badge_utils.py 42: quest_id or f"preview_{hash(title)}"
BadgeQuestId(q, sfx) == IF Truthy(q) THEN q ELSE PreviewId(sfx)

\* The identifiers generate_and_store_badge is called with.
UtilsQuestIds == {NoneVal, StrVal(<<>>), IntVal(209), StrVal(<<"7">>)}

\* badge_utils.py 27-55: the arguments are taken from quest_data and
\* generate_quest_badge is called with badge_quest_id.
UtilsGenerate ==
  /\ upc \in {"idle", "done"}
  /\ Len(badge_images) + 2 <= MaxRows
  /\ \E q \in UtilsQuestIds, sfx \in PreviewSuffixes :
       /\ request.quest_id = BadgeQuestId(q, sfx)
       /\ u_quest_id' = q
  /\ Enter
  /\ upc' = "generate"
  /\ u_returned' = NoBuffer
  /\ UNCHANGED icon_vars
  /\ UNCHANGED bot_vars

\* badge_utils.py 57-91: None when the badge failed; with a real quest_id a
\* row is inserted through safe_supabase_call, which swallows a failure (an
\* unset client included); the buffer is returned rewound.
UtilsStore ==
  /\ upc = "generate"
  /\ pc = "done"
  /\ IF escaped # ""
     THEN /\ u_returned' = NoBuffer
          /\ UNCHANGED badge_images
     ELSE IF returned = NoBuffer
     THEN /\ u_returned' = NoBuffer
          /\ UNCHANGED badge_images
     ELSE /\ u_returned' = Seek0(returned)
          /\ IF Truthy(u_quest_id)
             THEN \E ok \in BOOLEAN :
                    IF ok /\ supabase_client
                    THEN badge_images' = Append(badge_images,
                           [quest_id |-> StrOf(u_quest_id),
                            image_data |-> B64(Seek0(returned))])
                    ELSE UNCHANGED badge_images
             ELSE UNCHANGED badge_images
  /\ upc' = "done"
  /\ UNCHANGED << hashseed, env_vars, shown, pc, display_id, title, description,
                  badge, layout_vars, img_buffer, select_result, returned,
                  escaped, log, u_quest_id >>
  /\ UNCHANGED icon_vars
  /\ UNCHANGED bot_vars

\* ------------------------------------------------------------ icon catalog
Threads == 1..NumThreads

\* The keys of ICON_CATEGORIES that are modelled, and a name that is no key.
ICON_CATEGORIES == {"Spiritual", "Sports", "default"}
UnknownCategory == "zomusic"
IconFileNames == {"Spiritual", "Sports"}

\* icon_provider.py 55, 83: config.get("filename", category)
FilenameBase(c) == IF c = "default" THEN "Spiritual" ELSE c

NoImage == [kind |-> "none", file |-> ""]
\* Image.open(filepath).convert("RGBA")
Decoded(f) == [kind |-> "image", file |-> f]

\* A lookup that keeps the name it was given.
KeepCategory(c) == c

\* icon_provider.py 71-73
NormalizeCategory(c) == IF c \notin ICON_CATEGORIES THEN "default" ELSE c

IconInit ==
  /\ ICON_CACHE = << >>
  /\ icon_files \in [IconFileNames -> {"ok", "missing", "corrupt"}]
  /\ ipc = [t \in Threads |-> "idle"]
  /\ icon_arg = [t \in Threads |-> ""]
  /\ category = [t \in Threads |-> ""]
  /\ depth = [t \in Threads |-> 0]
  /\ icon = [t \in Threads |-> NoImage]
  /\ icon_result = [t \in Threads |-> NoImage]
  /\ icon_escaped = [t \in Threads |-> ""]

\* icon_provider.py 60-75: the outermost call.
IconCall(t, c) ==
  /\ ipc[t] \in {"idle", "done"}
  /\ icon_arg' = [icon_arg EXCEPT ![t] = c]
  /\ category' = [category EXCEPT ![t] = NormalizeCategory(c)]
  /\ depth' = [depth EXCEPT ![t] = 0]
  /\ icon' = [icon EXCEPT ![t] = NoImage]
  /\ icon_result' = [icon_result EXCEPT ![t] = NoImage]
  /\ icon_escaped' = [icon_escaped EXCEPT ![t] = ""]
  /\ ipc' = [ipc EXCEPT ![t] = "check_cache"]
  /\ UNCHANGED << ICON_CACHE, icon_files >>
  /\ UNCHANGED badge_vars
  /\ UNCHANGED utils_vars
  /\ UNCHANGED bot_vars

\* icon_provider.py 77-79
IconCheckCache(t) ==
  /\ ipc[t] = "check_cache"
  /\ IF category[t] \in DOMAIN ICON_CACHE
     THEN /\ icon_result' = [icon_result EXCEPT ![t] = ICON_CACHE[category[t]]]
          /\ ipc' = [ipc EXCEPT ![t] = "done"]
     ELSE /\ ipc' = [ipc EXCEPT ![t] = "load"]
          /\ UNCHANGED icon_result
  /\ UNCHANGED << ICON_CACHE, icon_files, icon_arg, category, depth, icon,
                  icon_escaped >>
  /\ UNCHANGED badge_vars
  /\ UNCHANGED utils_vars
  /\ UNCHANGED bot_vars

\* icon_provider.py 81-101 and 107-113: the catalog lookup (a KeyError for a
\* name that is no key), the file test, the decoding, and the fallback call
\* get_icon_by_category("default") of a missing or undecodable file.
IconLoad(t) ==
  /\ ipc[t] = "load"
  /\ IF category[t] \notin ICON_CATEGORIES
     THEN /\ icon_escaped' = [icon_escaped EXCEPT ![t] = "KeyError"]
          /\ ipc' = [ipc EXCEPT ![t] = "done"]
          /\ UNCHANGED << category, depth, icon, icon_result >>
     ELSE IF icon_files[FilenameBase(category[t])] = "ok"
     THEN /\ icon' = [icon EXCEPT ![t] = Decoded(FilenameBase(category[t]))]
          /\ ipc' = [ipc EXCEPT ![t] = "store"]
          /\ UNCHANGED << category, depth, icon_result, icon_escaped >>
     ELSE IF category[t] # "default"
     THEN /\ category' = [category EXCEPT ![t] = NormalizeCategory("default")]
          /\ depth' = [depth EXCEPT ![t] = depth[t] + 1]
          /\ ipc' = [ipc EXCEPT ![t] = "check_cache"]
          /\ UNCHANGED << icon, icon_result, icon_escaped >>
     ELSE /\ icon_result' = [icon_result EXCEPT ![t] = NoImage]
          /\ ipc' = [ipc EXCEPT ![t] = "done"]
          /\ UNCHANGED << category, depth, icon, icon_escaped >>
  /\ UNCHANGED << ICON_CACHE, icon_files, icon_arg >>
  /\ UNCHANGED badge_vars
  /\ UNCHANGED utils_vars
  /\ UNCHANGED bot_vars

\* A store that files the image under the name the caller asked for.
IconStoreUnderArg(t) ==
  /\ ipc[t] = "store"
  /\ ICON_CACHE' = [k \in DOMAIN ICON_CACHE \cup {icon_arg[t]} |->
                      IF k = icon_arg[t] THEN icon[t] ELSE ICON_CACHE[k]]
  /\ icon_result' = [icon_result EXCEPT ![t] = icon[t]]
  /\ ipc' = [ipc EXCEPT ![t] = "done"]
  /\ UNCHANGED << icon_files, icon_arg, category, depth, icon, icon_escaped >>
  /\ UNCHANGED badge_vars
  /\ UNCHANGED utils_vars
  /\ UNCHANGED bot_vars

\* icon_provider.py 103-105
IconStore(t) ==
  /\ ipc[t] = "store"
  /\ ICON_CACHE' = [k \in DOMAIN ICON_CACHE \cup {category[t]} |->
                      IF k = category[t] THEN icon[t] ELSE ICON_CACHE[k]]
  /\ icon_result' = [icon_result EXCEPT ![t] = icon[t]]
  /\ ipc' = [ipc EXCEPT ![t] = "done"]
  /\ UNCHANGED << icon_files, icon_arg, category, depth, icon, icon_escaped >>
  /\ UNCHANGED badge_vars
  /\ UNCHANGED utils_vars
  /\ UNCHANGED bot_vars

IconNext ==
  \/ \E t \in Threads, c \in ICON_CATEGORIES \cup {UnknownCategory} : IconCall(t, c)
  \/ \E t \in Threads : IconCheckCache(t)
  \/ \E t \in Threads : IconLoad(t)
  \/ \E t \in Threads : IconStore(t)

\* ------------------------------------------------------------ specifications
\* ----------------------------------------------------------- points ledger
\* zo_quest_bot.py 152
POINT_VALUES == <<111, 210, 300, 420, 690, 766>>

Subs == 1..NumSubs
LedgerUsers == 1..NumLedgerUsers
\* The points of the two quests the submissions were made for.
QuestPoints(q) == IF q = 1 THEN POINT_VALUES[1] ELSE POINT_VALUES[4]

\* Submissions wait for review; a new user has no points (db_utils.py 93).
LedgerInit ==
  /\ submissions \in [Subs -> [user_id : LedgerUsers, quest_id : {1, 2},
                               status : {"pending"}]]
  /\ total_points = [u \in LedgerUsers |-> 0]
  /\ callbacks = 0
  /\ db_failed = FALSE

\* zo_quest_bot.py 1837-1935: a callback approve_<id> or reject_<id>. Outside
\* the admin group nothing is done. The status is updated, then the
\* submission, its quest and its user are read, then, on approval, the
\* quest's points are added to the user's total; a request that fails ends
\* the handler where it stands.
Review(is_approval) ==
  /\ callbacks < MaxCallbacks
  /\ callbacks' = callbacks + 1
  /\ \E submission_id \in Subs, in_admin_group \in BOOLEAN,
        failing \in {"none", "status", "select", "points"} :
       LET status == IF is_approval THEN "approved" ELSE "rejected"
           submission == submissions[submission_id]
           new_points == total_points[submission.user_id]
                           + QuestPoints(submission.quest_id)
       IN IF ~in_admin_group
          THEN UNCHANGED << submissions, total_points, db_failed >>
          ELSE /\ db_failed' = (db_failed \/ failing # "none")
               /\ IF failing = "status"
                  THEN UNCHANGED << submissions, total_points >>
                  ELSE /\ submissions' =
                            [submissions EXCEPT ![submission_id].status = status]
                       /\ IF is_approval /\ failing = "none"
                          THEN total_points' =
                                 [total_points EXCEPT ![submission.user_id] =
                                    new_points]
                          ELSE UNCHANGED total_points

Approve ==
  /\ Review(TRUE)
  /\ UNCHANGED << badge_vars, icon_vars, utils_vars, session_vars >>

Reject ==
  /\ Review(FALSE)
  /\ UNCHANGED << badge_vars, icon_vars, utils_vars, session_vars >>

LedgerNext ==
  \/ Approve
  \/ Reject

\* ------------------------------------------------- quest-creation session
Admins == 1..NumAdmins

\* A user without a session, and the session /newquest makes
\* (zo_quest_bot.py 432-439).
NoSession == [state |-> "none", photo_id |-> FALSE, icon_category |-> FALSE]


Upd(k, u, r) == [kind |-> k, user |-> u, res |-> r]

\* The session of u goes to state st.
Goto(u, st) == user_sessions' = [user_sessions EXCEPT ![u].state = st]
Del(u) == user_sessions' = [user_sessions EXCEPT ![u] = NoSession]

SessionInit ==
  /\ user_sessions = [u \in Admins |-> NoSession]
  /\ quests = 0
  /\ update = Upd("", 0, "")

\* zo_quest_bot.py 410-441: /newquest, in the admin group only.
NewQuest ==
  /\ quests < MaxQuests
  /\ \E u \in Admins, in_admin_group \in BOOLEAN :
       /\ update' = Upd("newquest", u, "")
       /\ IF in_admin_group
          THEN user_sessions' = [user_sessions EXCEPT ![u] =
                                  [NoSession EXCEPT !.state = "awaiting_title"]]
          ELSE UNCHANGED user_sessions
  /\ UNCHANGED quests
  /\ UNCHANGED << badge_vars, icon_vars, utils_vars, ledger_vars >>

\* zo_quest_bot.py 1937-2029: a text message of a user who has a session
\* (in_session_filter, 2222-2240).
HandleText ==
  /\ \E u \in Admins :
       /\ user_sessions[u].state # "none"
       /\ update' = Upd("text", u, "")
       /\ IF user_sessions[u].state = "awaiting_title" THEN Goto(u, "awaiting_description")
          ELSE IF user_sessions[u].state = "awaiting_description" THEN Goto(u, "awaiting_party")
          ELSE IF user_sessions[u].state = "awaiting_deadline" THEN Goto(u, "awaiting_points")
          ELSE UNCHANGED user_sessions
  /\ UNCHANGED quests
  /\ UNCHANGED << badge_vars, icon_vars, utils_vars, ledger_vars >>

\* zo_quest_bot.py 1329-1359: party_<name> or party_skip.
PartyCallback ==
  /\ \E u \in Admins, skip \in BOOLEAN :
       /\ update' = Upd("party", u, "")
       /\ IF user_sessions[u].state = "awaiting_party"
          THEN IF skip THEN Goto(u, "awaiting_validation")
               ELSE Goto(u, "awaiting_category")
          ELSE UNCHANGED user_sessions
  /\ UNCHANGED quests
  /\ UNCHANGED << badge_vars, icon_vars, utils_vars, ledger_vars >>

\* zo_quest_bot.py 1360-1388: category_<type> or category_skip.
CategoryCallback ==
  /\ \E u \in Admins :
       /\ update' = Upd("category", u, "")
       /\ IF user_sessions[u].state = "awaiting_category"
          THEN Goto(u, "awaiting_validation")
          ELSE UNCHANGED user_sessions
  /\ UNCHANGED quests
  /\ UNCHANGED << badge_vars, icon_vars, utils_vars, ledger_vars >>

\* zo_quest_bot.py 1389-1401: validation_<type>.
ValidationCallback ==
  /\ \E u \in Admins :
       /\ update' = Upd("validation", u, "")
       /\ IF user_sessions[u].state = "awaiting_validation"
          THEN Goto(u, "awaiting_deadline")
          ELSE UNCHANGED user_sessions
  /\ UNCHANGED quests
  /\ UNCHANGED << badge_vars, icon_vars, utils_vars, ledger_vars >>

\* zo_quest_bot.py 1402-1423: points_<n>.
PointsCallback ==
  /\ \E u \in Admins :
       /\ update' = Upd("points", u, "")
       /\ IF user_sessions[u].state = "awaiting_points"
          THEN Goto(u, "awaiting_image_choice")
          ELSE UNCHANGED user_sessions
  /\ UNCHANGED quests
  /\ UNCHANGED << badge_vars, icon_vars, utils_vars, ledger_vars >>

\* zo_quest_bot.py 1425-1469: image_upload or image_generate; without icon
\* categories the icon step is skipped.
ImageCallback ==
  /\ \E u \in Admins, image_option \in {"upload", "generate"},
        categories \in BOOLEAN :
       /\ update' = Upd(IF image_option = "upload" THEN "image_upload"
                        ELSE "image_generate", u, "")
       /\ IF user_sessions[u].state = "awaiting_image_choice"
          THEN IF image_option = "upload" THEN Goto(u, "awaiting_image_upload")
               ELSE IF categories THEN Goto(u, "awaiting_icon_selection")
               ELSE Goto(u, "awaiting_confirmation")
          ELSE UNCHANGED user_sessions
  /\ UNCHANGED quests
  /\ UNCHANGED << badge_vars, icon_vars, utils_vars, ledger_vars >>

\* zo_quest_bot.py 1471-1575: icon_<category>. Without any icon the session
\* is deleted; when the preview badge is None the state is kept; an exception
\* keeps the state the handler had reached.
IconCallback ==
  /\ \E u \in Admins,
        out \in {"ok", "no_icon", "no_badge", "raise_before", "raise_after"} :
       /\ update' = Upd("icon", u, out)
       /\ IF user_sessions[u].state = "awaiting_icon_selection"
          THEN IF out = "no_icon" THEN Del(u)
               ELSE IF out = "raise_before" THEN UNCHANGED user_sessions
               ELSE IF out = "no_badge"
               THEN user_sessions' =
                      [user_sessions EXCEPT ![u].icon_category = TRUE]
               ELSE user_sessions' =
                      [user_sessions EXCEPT ![u].icon_category = TRUE,
                                            ![u].state = "awaiting_confirmation"]
          ELSE UNCHANGED user_sessions
  /\ UNCHANGED quests
  /\ UNCHANGED << badge_vars, icon_vars, utils_vars, ledger_vars >>

\* zo_quest_bot.py 2033-2089: a photo of a user who has a session, in the
\* admin group: the photo is kept in the session and the preview with the
\* buttons Create Quest and Cancel is sent; the state is not assigned.
HandlePhoto ==
  /\ \E u \in Admins, in_admin_group \in BOOLEAN :
       /\ user_sessions[u].state # "none"
       /\ update' = Upd("photo", u, "")
       /\ IF in_admin_group
          THEN user_sessions' = [user_sessions EXCEPT ![u].photo_id = TRUE]
          ELSE UNCHANGED user_sessions
  /\ UNCHANGED quests
  /\ UNCHANGED << badge_vars, icon_vars, utils_vars, ledger_vars >>

\* zo_quest_bot.py 1577-1720: confirm_quest. In awaiting_confirmation the
\* quest is inserted and the session waits for the announcement choice; a
\* duplicate key leaves the session, any other failure deletes it (after the
\* insert too). In any other state only the query is answered.
ConfirmQuest ==
  /\ \E u \in Admins, res \in {"ok", "duplicate", "error", "ok_then_error"} :
       IF user_sessions[u].state = "awaiting_confirmation"
       THEN /\ update' = Upd("confirm_quest", u, res)
            /\ quests' = IF res \in {"ok", "ok_then_error"}
                         THEN quests + 1 ELSE quests
            /\ IF res = "ok" THEN Goto(u, "awaiting_announcement")
               ELSE IF res = "duplicate" THEN UNCHANGED user_sessions
               ELSE Del(u)
       ELSE /\ update' = Upd("confirm_quest", u, "")
            /\ UNCHANGED << user_sessions, quests >>
  /\ UNCHANGED << badge_vars, icon_vars, utils_vars, ledger_vars >>

\* zo_quest_bot.py 1722-1740: reject_quest.
RejectQuest ==
  /\ \E u \in Admins :
       /\ update' = Upd("reject_quest", u, "")
       /\ IF user_sessions[u].state = "awaiting_confirmation"
          THEN Del(u) ELSE UNCHANGED user_sessions
  /\ UNCHANGED quests
  /\ UNCHANGED << badge_vars, icon_vars, utils_vars, ledger_vars >>

\* zo_quest_bot.py 1742-1834: announce_<id> or no_announce; the session is
\* deleted whether or not the announcement could be sent.
Announce ==
  /\ \E u \in Admins :
       /\ update' = Upd("announce", u, "")
       /\ IF user_sessions[u].state = "awaiting_announcement"
          THEN Del(u) ELSE UNCHANGED user_sessions
  /\ UNCHANGED quests
  /\ UNCHANGED << badge_vars, icon_vars, utils_vars, ledger_vars >>

SessionNext ==
  \/ NewQuest
  \/ HandleText
  \/ PartyCallback
  \/ CategoryCallback
  \/ ValidationCallback
  \/ PointsCallback
  \/ ImageCallback
  \/ IconCallback
  \/ HandlePhoto
  \/ ConfirmQuest
  \/ RejectQuest
  \/ Announce

\* The bot handles no update.
BotIdle ==
  /\ submissions = [s \in Subs |-> [user_id |-> 1, quest_id |-> 1,
                                    status |-> "pending"]]
  /\ total_points = [u \in LedgerUsers |-> 0]
  /\ callbacks = 0
  /\ db_failed = FALSE
  /\ SessionInit

vars == << badge_vars, icon_vars, utils_vars, bot_vars >>

\* The icon catalog at rest, every file in place.
IconIdle ==
  /\ IconInit
  /\ icon_files = [f \in IconFileNames |-> "ok"]

\* The compositor at rest.
BadgeIdle ==
  /\ hashseed = 0
  /\ request = DefaultRequest
  /\ supabase_client = FALSE
  /\ font_files = FontFiles
  /\ serializable = TRUE
  /\ badge_images = <<>>
  /\ shown = {}
  /\ NoLocals

\* No call of generate_and_store_badge is under way.
UtilsIdle ==
  /\ upc = "idle"
  /\ u_quest_id = request.quest_id
  /\ u_returned = NoBuffer

Init == BadgeInit /\ IconIdle /\ UtilsIdle /\ BotIdle
Next == BadgeNext
Spec == Init /\ [][Next]_vars

IconSpecInit == IconInit /\ BadgeIdle /\ UtilsIdle /\ BotIdle
IconSpec == IconSpecInit /\ [][IconNext]_vars

\* The badge compositor with its two kinds of caller and a configured or
\* missing client: generate_and_store_badge, and the handlers that call
\* generate_quest_badge themselves (with a preview or a real identifier).
StoreInit ==
  /\ hashseed \in Seeds
  /\ \E q \in (UtilsQuestIds \ {NoneVal, StrVal(<<>>)})
                 \cup {PreviewId(sfx) : sfx \in PreviewSuffixes},
        i \in Icons :
       request = [DefaultRequest EXCEPT !.quest_id = q, !.icon_image = i]
  /\ supabase_client \in BOOLEAN
  /\ font_files = FontFiles
  /\ serializable \in BOOLEAN
  /\ badge_images = <<>>
  /\ shown = {}
  /\ NoLocals
  /\ IconIdle
  /\ upc = "idle"
  /\ u_quest_id = NoneVal
  /\ u_returned = NoBuffer
  /\ BotIdle

StoreNext ==
  \/ Call
  \/ CreateBadge
  \/ LoadFonts
  \/ DrawLogo
  \/ DrawQuestId
  \/ DrawTitle
  \/ DrawDescription
  \/ DrawActionLabel
  \/ DrawAction
  \/ DrawDeadline
  \/ RenderPill
  \/ PlaceIcon
  \/ StoreSave
  \/ StoreSelect
  \/ StoreWrite
  \/ Finalize
  \/ Restart
  \/ UtilsGenerate
  \/ UtilsStore

StoreSpec == StoreInit /\ [][StoreNext]_vars

\* The review of submissions in the admin group.
LedgerSpecInit ==
  LedgerInit /\ SessionInit /\ BadgeIdle /\ IconIdle /\ UtilsIdle
LedgerSpec == LedgerSpecInit /\ [][LedgerNext]_vars

\* The creation of quests by the admins.
SessionSpecInit == BotIdle /\ BadgeIdle /\ IconIdle /\ UtilsIdle
SessionSpec == SessionSpecInit /\ [][SessionNext]_vars

\* ------------------------------------------------------------------ claims
\* The operations of the given role on the canvas, in drawing order.
OpsOf(r) == SelectSeq(badge, LAMBDA o : o.role = r)
\* The records of the current call's log with the given message.
Logged(m) == {i \in 1..Len(log) : log[i].msg = m}
StorageOps == {"select", "update", "insert"}
InCall == pc \notin {"idle", "done"}

\* C1: generate_quest_badge never propagates an exception: whatever the
\* arguments and whatever step fails, no exception leaves the call, a call
\* that is under way can always take its next step, and a call that has
\* ended has returned an image buffer or None.
C1_NeverPropagates ==
  /\ escaped = ""
  /\ InCall => ENABLED BadgeNext
  /\ pc = "done" => returned.kind \in {"buffer", "none"}
  /\ pc = "done" /\ returned.kind = "none" =>
       log # <<>> /\ Last(log).level = "error"

\* C1 witness: a non-numeric quest_id string, a step of the pipeline has
\* raised, and the call has ended returning None.
C1_Witness ==
  /\ pc = "done"
  /\ request.quest_id.kind = "str"
  /\ ~ParseInt(request.quest_id.chars).ok
  /\ returned = NoBuffer
  /\ Logged("Error generating badge") # {}
  /\ Len(badge) >= 3

\* C2: when one of the six fonts cannot be loaded the call returns None and
\* has logged an error, and nothing after font loading has happened: the
\* canvas holds at most the card, nothing was serialized, no row was written.
C2_FontFailureIsNull ==
  (\E i \in 1..6 : FontLoads[i].file \notin font_files) =>
    /\ pc \in {"idle", "create_badge", "load_fonts", "done"}
    /\ \A i \in 1..Len(badge) : badge[i].op = "card"
    /\ img_buffer = NoBuffer
    /\ select_result = <<>>
    /\ badge_images = <<>>
    /\ shown = {}
    /\ escaped = ""
    /\ pc = "done" =>
         /\ returned = NoBuffer
         /\ log # <<>> /\ Last(log).level = "error"
         /\ badge # <<>> => Last(log).msg = "Failed to load fonts"

\* C2 witness: exactly one font file is missing, the card was built, and the
\* call has ended on the font error.
C2_Witness ==
  /\ pc = "done"
  /\ Cardinality(font_files) = 2
  /\ badge # <<>>
  /\ Logged("Failed to load fonts") # {}
  /\ supabase_client

\* C3: a storage operation (select, update, insert) that raises does not
\* change the result: the call returns the encoded final canvas, positioned
\* at offset 0, as it does when storage succeeds or is not configured.
C3_StorageFailureKeepsImage ==
  /\ (\E i \in Logged("Error saving badge to Supabase") : log[i].exc \in StorageOps) =>
       /\ pc \in {"finalize", "done"}
       /\ pc = "done" => returned.kind = "buffer"
  /\ pc = "done" /\ returned.kind = "buffer" =>
       returned = [kind |-> "buffer", data |-> badge, pos |-> 0]

\* C3 witness: a row exists, the update raised, and the buffer was returned.
C3_Witness ==
  /\ pc = "done"
  /\ supabase_client
  /\ badge_images # <<>>
  /\ \E i \in Logged("Error saving badge to Supabase") : log[i].exc = "update"
  /\ returned.kind = "buffer"
  /\ returned.pos = 0

\* C4: when a step of icon placement raises, the error is logged and the
\* render goes on: no icon is on the canvas, the storage and serialization
\* steps follow, and the call returns None only if the canvas itself cannot
\* be encoded.
C4_IconFailureIsNotFatal ==
  Logged("Error placing icon") # {} =>
    /\ request.icon_image.kind = "image"
    /\ OpsOf("icon") = <<>>
    /\ pc \in {"store", "store_select", "store_write", "finalize", "done"}
    /\ Logged("Error generating badge") # {} => ~serializable
    /\ pc = "done" /\ serializable =>
         returned = [kind |-> "buffer", data |-> badge, pos |-> 0]

\* C4 witness: the resize of a supplied icon raised and a buffer came back.
C4_Witness ==
  /\ pc = "done"
  /\ \E i \in Logged("Error placing icon") : log[i].exc = "thumbnail"
  /\ returned.kind = "buffer"
  /\ OpsOf("pill") # <<>>

\* The image of the default category when its file can be decoded, else None.
DefaultOutcome ==
  IF icon_files[FilenameBase("default")] = "ok"
  THEN Decoded(FilenameBase("default")) ELSE NoImage

\* C5: get_icon_by_category never raises; a call for an unknown category, for
\* "default", or for a known category whose file is missing or undecodable
\* returns the default icon when the default file loads and None otherwise;
\* a call falls back at most once.
C5_IconFallback ==
  \A t \in Threads :
    /\ icon_escaped[t] = ""
    /\ depth[t] <= 1
    /\ ipc[t] = "done" =>
         /\ (icon_arg[t] \notin ICON_CATEGORIES
              \/ icon_arg[t] = "default"
              \/ icon_files[FilenameBase(icon_arg[t])] # "ok")
            => icon_result[t] = DefaultOutcome
         /\ (icon_arg[t] \in ICON_CATEGORIES
              /\ icon_files[FilenameBase(icon_arg[t])] = "ok")
            => icon_result[t] = Decoded(FilenameBase(icon_arg[t]))

\* C5 witness: a call for a known category whose file cannot be decoded fell
\* back once and returned the default icon, and a call for an unknown
\* category returned the same.
C5_Witness ==
  \E t, u \in Threads :
    /\ ipc[t] = "done" /\ ipc[u] = "done"
    /\ icon_arg[t] = "Sports" /\ icon_files["Sports"] = "corrupt"
    /\ depth[t] = 1
    /\ icon_result[t] = Decoded("Spiritual")
    /\ icon_arg[u] = UnknownCategory
    /\ icon_result[u] = icon_result[t]

\* The number a sequence of decimal digits denotes.
RECURSIVE DigitsToNat(_)
DigitsToNat(ds) ==
  IF ds = <<>> THEN 0 ELSE 10 * DigitsToNat(Front(ds)) + Last(ds)

\* quest_id is a string that is not used as a number: it holds the separator
\* or does not parse as an integer.
IsHashed(q) ==
  q.kind = "str" /\ (HasSeparator(q.chars) \/ ~ParseInt(q.chars).ok)

\* The number a quest_id denotes, 0 - 1 when it denotes none or is hashed.
DirectValue(q) ==
  IF q.kind = "int" THEN q.val
  ELSE IF q.kind = "str" /\ ~IsHashed(q) THEN ParseInt(q.chars).val
  ELSE 0 - 1

\* What the tag shows (the behaviour C6 is measured against): display_id
\* after the format 03d, its decimal digits zero-padded to a field at least
\* three characters wide. It is an integer in 0..999 shown as exactly three
\* digits when quest_id is a hashed string or a number that already lies in
\* 0..999; a larger number is shown with all its digits and a negative one
\* with its sign.
TagZeroPadded ==
  \A i \in 1..Len(OpsOf("quest_id")) :
    LET f == OpsOf("quest_id")[i].body
        v == display_id.val
    IN /\ display_id.kind = "int"
       /\ DigitsToNat(f.digits) = (IF v < 0 THEN 0 - v ELSE v)
       /\ f.neg = (v < 0)
       /\ FieldWidth(f) >= 3
       /\ FieldWidth(f) > 3 => f.digits[1] # 0
       /\ (IsHashed(request.quest_id) \/ DirectValue(request.quest_id) \in 0..999)
            => v \in 0..999 /\ ~f.neg /\ Len(f.digits) = 3
       /\ (~IsHashed(request.quest_id) /\ DirectValue(request.quest_id) \notin 0..999)
            => v = DirectValue(request.quest_id) /\ (f.neg \/ Len(f.digits) > 3)

\* A string with the separator was hashed and its tag drawn with three
\* digits, the first of them a padding zero.
HashedTagDrawn ==
  /\ OpsOf("quest_id") # <<>>
  /\ request.quest_id.kind = "str"
  /\ HasSeparator(request.quest_id.chars)
  /\ Len(OpsOf("quest_id")[1].body.digits) = 3
  /\ OpsOf("quest_id")[1].body.digits[1] = 0
  /\ display_id.val > 0

\* C6 as stated: every tag that is drawn shows an integer in 0..999 as exactly
\* three decimal digits.
C6_TagAlwaysThreeDigits ==
  \A i \in 1..Len(OpsOf("quest_id")) :
    LET f == OpsOf("quest_id")[i].body
    IN display_id.val \in 0..999 /\ ~f.neg /\ Len(f.digits) = 3

\* C7 as stated: a numeric quest_id (an integer, or a string that parses as
\* a decimal integer whatever its sign) is used directly as display_id, and
\* only a string that does not parse is hashed modulo 1000.
C7_NumericUsedDirectly ==
  (pc # "idle" /\ display_id.kind = "int") =>
    LET q == request.quest_id
    IN /\ q.kind = "int" => display_id.val = q.val
       /\ (q.kind = "str" /\ ParseInt(q.chars).ok) =>
            display_id.val = ParseInt(q.chars).val
       /\ (q.kind = "str" /\ ~ParseInt(q.chars).ok) =>
            display_id.val = PyHash(hashseed, q.chars) % 1000

\* C8 as stated: every tag drawn for one quest_id shows the same display_id,
\* in one run of the program and across runs.
C8_SameIdAcrossRuns == Cardinality(shown) <= 1

\* C9: only the first three words of the title are drawn, in order; a
\* three-word form wider than the budget is drawn on at most two lines, each
\* a single word or within the budget and each as full as the budget allows,
\* and what would make a third line is left out; a form within the budget is
\* drawn whole on one line.
C9_TitleThreeWordsTwoLines ==
  LET ops == OpsOf("title")
      first3 == SubSeq(request.title.words, 1, Min(3, Len(request.title.words)))
      drawn == Flatten([i \in 1..Len(ops) |-> ops[i].body.words])
      fits(ws) == TextLength(Join(ws), TitleCharW) <= 500
  IN ops # <<>> =>
       /\ Len(drawn) <= Len(first3)
       /\ drawn = SubSeq(first3, 1, Len(drawn))
       /\ \A i \in 1..Len(ops) :
            ops[i].x = 40 /\ ops[i].y = 160 + 45 * (i - 1) /\ ops[i].body.gap = 1
       /\ IF ~fits(first3)
          THEN /\ Len(ops) <= 2
               /\ \A i \in 1..Len(ops) :
                    /\ ops[i].body.words # <<>>
                    /\ Len(ops[i].body.words) = 1 \/ fits(ops[i].body.words)
               /\ Len(ops) = 2 =>
                    ~fits(Append(ops[1].body.words, ops[2].body.words[1]))
               /\ Len(drawn) < Len(first3) =>
                    /\ Len(ops) = 2
                    /\ ~fits(Append(ops[2].body.words, first3[Len(drawn) + 1]))
          ELSE Len(ops) = 1 /\ drawn = first3

\* C9 witness: a title of five words whose first three words each need a
\* line: two lines are drawn and the third word is left out.
C9_Witness ==
  /\ Len(request.title.words) = 5
  /\ Len(OpsOf("title")) = 2
  /\ OpsOf("title")[2].body.words = << request.title.words[2] >>
  /\ request.title.words[3] # request.title.words[2]
  /\ pc = "draw_description"

\* The description step of the current call has been carried out.
DescriptionDrawn ==
  \/ pc \in {"draw_action_label", "draw_action", "draw_deadline", "render_pill",
             "place_icon", "store", "store_select", "store_write", "finalize"}
  \/ pc = "done" /\ returned.kind = "buffer"

\* C10: the description that is wrapped and drawn is the first 10 words
\* joined by single blanks and followed by "..." when there are more than 10
\* words, and the description as given otherwise; every word of it is drawn,
\* and no drawn line is longer than 28 characters.
C10_DescriptionTenWords ==
  DescriptionDrawn =>
    LET src == request.description
        ops == OpsOf("description")
        inked == [i \in 1..Len(ops) |->
                    ChunkLen(SelectSeq(ops[i].body, LAMBDA c : ~c.ws))]
    IN /\ description =
            IF Len(src.words) > 10
            THEN [kind |-> "str", words |-> SubSeq(src.words, 1, 10),
                  gap |-> 1, ell |-> TRUE]
            ELSE src
       /\ \A i \in 1..Len(ops) :
            /\ ops[i].body # <<>>
            /\ ChunkLen(ops[i].body) <= 28
            /\ ~ops[i].body[1].ws \/ i = 1
            /\ ~Last(ops[i].body).ws
       /\ SumSeq(inked) = SumSeq(description.words) + (IF description.ell THEN 3 ELSE 0)

\* C10 witness: a description of 11 words, given with double blanks, one of
\* its first ten words longer than a line: it was cut, marked with "...",
\* and a line of exactly 28 characters was drawn.
C10_Witness ==
  /\ DescriptionDrawn
  /\ Len(request.description.words) = 11
  /\ request.description.gap = 2
  /\ description.ell
  /\ Len(description.words) = 10
  /\ \E i \in 1..Len(OpsOf("description")) : ChunkLen(OpsOf("description")[i].body) = 28

\* The number of decimal digits of a points value, its sign not counted.
DigitCount(p) == Len(DecDigits(IF p < 0 THEN 0 - p ELSE p))

\* The advances of the characters of str(p) in the points font.
AdvancesOf(p) ==
  {PointsAdvance(StrOf(IntVal(p))[i]) : i \in 1..Len(StrOf(IntVal(p)))}

\* C11 as stated: the pill is as wide as str(points) measures plus 80 and 70
\* high, so of two points values the one with more decimal digits gets the
\* strictly wider pill and the smaller left edge. Stated here for the values
\* that are written without a sign.
C11_PillMonotonicInDigits ==
  \A i \in 1..Len(OpsOf("pill")) :
    LET pill == OpsOf("pill")[i]
    IN /\ pill.body = << points_width(request.points) + 80, 70 >>
       /\ \A q \in PointsValues :
            (request.points >= 0 /\ q >= 0
              /\ DigitCount(q) > DigitCount(request.points)) =>
              button_width(q) > pill.body[1] /\ button_x(q) < pill.x

\* C11 (as amended): the pill is as wide as str(points) measures in the
\* points font plus 80 and 70 high, its left edge at 800 - width - 60, so the
\* pill width is monotonic in the measured width of str(points): of two
\* values the one whose text measures wider gets the strictly wider pill and
\* the smaller left edge. More characters give the wider pill when all the
\* characters of both texts have the same advance (9 and 999).
C11_PillMonotonicInTextWidth ==
  \A i \in 1..Len(OpsOf("pill")) :
    LET pill == OpsOf("pill")[i]
        p == request.points
    IN /\ pill.body = << points_width(p) + 80, 70 >>
       /\ pill.x = 800 - pill.body[1] - 60
       /\ pill.y = 500 - 70 - 50
       /\ \A q \in PointsValues :
            /\ points_width(q) > points_width(p) =>
                 button_width(q) > pill.body[1] /\ button_x(q) < pill.x
            /\ (Cardinality(AdvancesOf(p) \cup AdvancesOf(q)) = 1
                  /\ PointsChars(q) > PointsChars(p)) =>
                 button_width(q) > pill.body[1] /\ button_x(q) < pill.x

\* C11 witness: the pill of points = 999 has been pasted; it is wider than
\* the pill of 9 and narrower than the pill of 1000.
C11_Witness ==
  /\ OpsOf("pill") # <<>>
  /\ request.points = 999
  /\ OpsOf("pill")[1].body[1] > button_width(9)
  /\ OpsOf("pill")[1].body[1] < button_width(1000)

\* The image a returned buffer decodes to: PNG keeps the size and the mode
\* of the canvas that was saved.
ImageOf(b) == [size |-> b.data[1].body.size, mode |-> b.data[1].body.mode]

\* C12: every buffer that is returned decodes to an RGBA image of 820 by 520
\* pixels; the canvas is made once, 20 larger than the card each way with the
\* card at (10, 10), and no later step makes another canvas or changes it.
C12_Canvas820x520 ==
  /\ badge # <<>> =>
       /\ badge[1].op = "card"
       /\ badge[1].x = 10 /\ badge[1].y = 10
       /\ badge[1].body.size = << 820, 520 >>
       /\ badge[1].body.card = << 800, 500 >>
       /\ badge[1].body.mode = "RGBA"
       /\ Len(OpsOf("card")) = 1
  /\ returned.kind = "buffer" =>
       /\ returned.data = badge
       /\ ImageOf(returned) = [size |-> << 820, 520 >>, mode |-> "RGBA"]

\* C12 witness: a buffer was returned for a badge with a seven-digit pill
\* and a three-line action.
C12_Witness ==
  /\ returned.kind = "buffer"
  /\ request.points = 1234567
  /\ Len(OpsOf("action")) = 3
  /\ OpsOf("pill") # <<>>

\* The arguments have the types the signature documents.
DocumentedTypes ==
  /\ request.title.kind = "str"
  /\ request.description.kind = "str"
  /\ request.action.kind = "str"
  /\ request.deadline.kind = "str"
  /\ request.quest_id.kind \in {"str", "int"}

\* C13: in a call without an icon no step of icon placement runs (nothing is
\* pasted as icon, nothing is logged about one) and nothing is raised to the
\* caller; when the fonts load, the arguments have the documented types and
\* no step fails for a reason of its own, the call returns the encoded
\* canvas.
C13_NoIconStillRenders ==
  request.icon_image.kind = "none" =>
    /\ OpsOf("icon") = <<>>
    /\ Logged("Error placing icon") = {}
    /\ Logged("Pasted centered icon") = {}
    /\ escaped = ""
    /\ (/\ pc = "done"
        /\ font_files = FontFiles
        /\ serializable
        /\ DocumentedTypes
        /\ \A i \in 1..Len(log) : log[i].exc # "Exception") =>
         returned = [kind |-> "buffer", data |-> badge, pos |-> 0]

\* C13 witness: a call without an icon has passed the icon step and ended
\* with a buffer that holds the pill and no icon.
C13_Witness ==
  /\ pc = "done"
  /\ request.icon_image.kind = "none"
  /\ returned.kind = "buffer"
  /\ Logged("Badge generated successfully") # {}
  /\ \E i \in 1..Len(returned.data) : returned.data[i].role = "pill"

\* Every cache entry is the image of its own category's file, and every
\* caller that has finished holds the entry of the category it asked for or
\* of the default category, or None when neither file can be decoded.
CacheSound ==
  /\ \A k \in DOMAIN ICON_CACHE :
       /\ k \in ICON_CATEGORIES
       /\ icon_files[FilenameBase(k)] = "ok"
       /\ ICON_CACHE[k] = Decoded(FilenameBase(k))
  /\ \A t \in Threads :
       /\ icon_escaped[t] = ""
       /\ ipc[t] = "done" =>
            LET c == IF icon_arg[t] \in ICON_CATEGORIES THEN icon_arg[t]
                     ELSE "default"
                own == icon_files[FilenameBase(c)] = "ok"
                k == IF own THEN c ELSE "default"
            IN IF icon_files[FilenameBase(k)] = "ok"
               THEN /\ k \in DOMAIN ICON_CACHE
                    /\ icon_result[t] = ICON_CACHE[k]
               ELSE icon_result[t] = NoImage

\* A step never removes a cache entry nor changes the image it holds.
CacheStable ==
  \A k \in DOMAIN ICON_CACHE :
    k \in DOMAIN ICON_CACHE' /\ ICON_CACHE'[k] = ICON_CACHE[k]

\* C14: under every interleaving of concurrent get_icon_by_category calls
\* the cache stays sound: every entry maps its category to the image of that
\* category's own file, every finished caller holds an image equal to the
\* entry (or None when nothing could be loaded), and a racing caller that
\* populates a key again leaves every entry as it was.
C14_CacheNeverCorrupted == [](CacheSound) /\ [][CacheStable]_vars

\* C14 witness: two callers raced on one uncached category; the first has
\* stored its image and returned, the second holds its own decoded copy and
\* is about to store it under the same key.
C14_Witness ==
  /\ ipc[1] = "done"
  /\ ipc[2] = "store"
  /\ category[1] = category[2]
  /\ category[2] \in DOMAIN ICON_CACHE
  /\ icon_result[1] = icon[2]
  /\ icon_result[1] # NoImage

\* The positions on the canvas, in drawing order, of the operations of role r.
IndexesOf(r) == {i \in 1..Len(badge) : badge[i].role = r}

\* C15 as stated: on every canvas that is returned the pill was rendered
\* before the Action and Deadline rows were drawn, the icon was composited
\* after both, and the canvas was serialized after the icon step.
C15_PillBeforeRows ==
  returned.kind = "buffer" =>
    /\ \A i \in IndexesOf("pill") \cup IndexesOf("pill_shadow") :
         \A j \in IndexesOf("action_label") \cup IndexesOf("action")
                  \cup IndexesOf("deadline_label") \cup IndexesOf("deadline") :
           i < j
    /\ \A i \in IndexesOf("icon") :
         \A j \in IndexesOf("pill") \cup IndexesOf("action") \cup IndexesOf("deadline") :
           j < i
    /\ returned.data = badge

\* C16 as stated: when the three-word title is wider than the budget of 500
\* px, every title line that is drawn is at most 500 px wide, also when a
\* single word is wider than the budget.
C16_TitleLinesFit ==
  \A i \in 1..Len(OpsOf("title")) :
    TextLength(OpsOf("title")[i].body, TitleCharW) <= 500

\* C17 as stated: the first description line is drawn 40 px below the end of
\* the title block, which starts at y = 160 and takes 45 px per drawn title
\* line, and every further description line is 35 px lower, for a title
\* drawn without wrapping as for a wrapped one.
C17_DescriptionBelowTitle ==
  DescriptionDrawn =>
    \A i \in 1..Len(OpsOf("description")) :
      OpsOf("description")[i].y =
        160 + 45 * Len(OpsOf("title")) + 40 + 35 * (i - 1)

\* C18 as stated: every line of the action value that is drawn is at most
\* max_action_width = pill left edge - action_x - 30 wide, so it ends at least
\* 30 px left of the pill.
C18_ActionClearOfPill ==
  \A i \in 1..Len(OpsOf("action")) :
    LET line == OpsOf("action")[i]
        pill_left == 800 - (points_width(request.points) + 80) - 60
    IN /\ TextLength(line.body, BodyCharW) <= pill_left - line.x - 30
       /\ line.x + TextLength(line.body, BodyCharW) + 30 <= pill_left

\* C19 as stated: in a wrapped action every word that is by itself wider than
\* the available width is drawn as its first 10 characters and "...",
\* wherever in the text it stands: no drawn line holds such a word whole.
C19_LongWordsTruncated ==
  LET maxw == max_action_width(request.points)
  IN TextLength(request.action, BodyCharW) > maxw =>
       \A i \in 1..Len(OpsOf("action")) :
         LET body == OpsOf("action")[i].body
         IN IF body.ell
            THEN Len(body.words) = 1 /\ body.words[1] <= 10
            ELSE \A k \in 1..Len(body.words) :
                   body.words[k] * BodyCharW <= maxw

\* C20 as stated: the Deadline row is drawn 10 px below the end of the
\* action block, which starts at info_y + action_y_offset and takes 0.8 x
\* body font size per drawn action line, for an unwrapped action as for a
\* wrapped one. Positions are in thousandths of a pixel.
C20_DeadlineBelowAction ==
  \A i \in 1..Len(OpsOf("deadline_label")) :
    LET row == OpsOf("deadline_label")[i]
    IN row.y * 1000 + row.frac =
         info_y * 1000 + action_y_offset + 26 * 800 * Len(OpsOf("action")) + 10000

\* C21 as stated: on the canvas, where the card lies from (10, 10) to
\* (810, 510), the right edge of the pill is 60 px left of the card's right
\* edge and its bottom edge 50 px above the card's bottom edge.
C21_PillInsetFromCard ==
  \A i \in 1..Len(OpsOf("pill")) :
    LET pill == OpsOf("pill")[i]
        card == OpsOf("card")[1]
    IN /\ pill.x + pill.body[1] = card.x + card.body.card[1] - 60
       /\ pill.y + pill.body[2] = card.y + card.body.card[2] - 50

\* C22 as stated: the icon as pasted (after the resize) is centred on the
\* horizontal midpoint of the pill, to the pixel that integer division
\* allows, and its bottom edge is 20 px above the top edge of the pill.
C22_IconCentredOverPill ==
  \A i \in 1..Len(OpsOf("icon")) :
    LET ic == OpsOf("icon")[i]
        bx == button_x(request.points)
        bw == button_width(request.points)
        off == (2 * ic.x + ic.body[1]) - (2 * bx + bw)
    IN /\ off \in (0 - 2)..2
       /\ ic.y + ic.body[2] = button_y - 20

\* Two rectangles, each given as << left, top, right, bottom >>, share a point.
Intersect(a, b) == a[1] < b[3] /\ b[1] < a[3] /\ a[2] < b[4] /\ b[2] < a[4]

\* C23 as stated: the boxes of the title lines that are within the budget
\* and of the quest-id tag do not meet the rectangle into which the icon is
\* pasted, and that rectangle lies inside the canvas of 820 by 520.
C23_TextClearOfIcon ==
  \A i \in 1..Len(OpsOf("icon")) :
    LET ic == OpsOf("icon")[i]
        rect == << ic.x, ic.y, ic.x + ic.body[1], ic.y + ic.body[2] >>
    IN /\ \A k \in 1..Len(OpsOf("title")) :
            LET t == OpsOf("title")[k]
                w == TextLength(t.body, TitleCharW)
            IN w <= 500 => ~Intersect(<< t.x, t.y, t.x + w, t.y + 50 >>, rect)
       /\ \A k \in 1..Len(OpsOf("quest_id")) :
            LET t == OpsOf("quest_id")[k]
                w == (10 + FieldWidth(t.body)) * SmallCharW
            IN ~Intersect(<< t.x, t.y, t.x + w, t.y + 24 >>, rect)
       /\ rect[1] >= 0 /\ rect[2] >= 0 /\ rect[3] <= 820 /\ rect[4] <= 520

\* C24: the table badge_images holds at most one row of any quest_id, after
\* any sequence of calls of generate_quest_badge and generate_and_store_badge.
C24_OneRowPerQuest ==
  \A i, j \in 1..Len(badge_images) :
    badge_images[i].quest_id = badge_images[j].quest_id => i = j

\* The rows of the table that belong to a preview.
PreviewRows ==
  {i \in 1..Len(badge_images) :
     \E sfx \in PreviewSuffixes : badge_images[i].quest_id = StrOf(PreviewId(sfx))}

\* C28: a preview badge never makes a row of badge_images.
C28_PreviewNeverStored == PreviewRows = {}

\* C25: no step of generate_quest_badge changes the icon image the caller
\* passed (its mode and its size stay what they were) and none assigns a
\* module-level variable (the configured client, the icon cache).
C25_ArgumentsAndGlobalsKept ==
  [][/\ request'.icon_image = request.icon_image
     /\ supabase_client' = supabase_client
     /\ ICON_CACHE' = ICON_CACHE]_vars

\* C25 witness: a palette icon of 600x300 was converted, shrunk and pasted,
\* and the caller's image is still the 600x300 palette image.
C25_Witness ==
  /\ pc = "done"
  /\ request.icon_image = Icon("P", 600, 300)
  /\ \E i \in 1..Len(badge) :
       /\ badge[i].role = "icon"
       /\ badge[i].body # << 600, 300 >>

\* The points of the submissions of user u whose status is approved.
RECURSIVE ApprovedPoints(_, _)
ApprovedPoints(u, n) ==
  IF n = 0 THEN 0
  ELSE ApprovedPoints(u, n - 1)
         + (IF submissions[n].user_id = u /\ submissions[n].status = "approved"
            THEN QuestPoints(submissions[n].quest_id) ELSE 0)

\* C26: while no request of a review has failed, every user's total_points
\* is the sum of the points of the quests of that user's approved
\* submissions, whatever callbacks were handled and however often.
C26_LedgerMatchesApproved ==
  ~db_failed =>
    \A u \in LedgerUsers : total_points[u] = ApprovedPoints(u, NumSubs)

\* C27: when a user who chose Upload Image and sent a photo presses Create
\* Quest, and the database does not refuse the insert, a quest is inserted.
C27_UploadThenCreateInserts ==
  [][\A u \in Admins :
       (/\ user_sessions[u].state = "awaiting_image_upload"
        /\ user_sessions[u].photo_id
        /\ update'.kind = "confirm_quest"
        /\ update'.user = u
        /\ update'.res \notin {"duplicate", "error"})
         => quests' = quests + 1]_vars

\* The words of the action lines on the canvas, in drawing order.
DrawnActionWords ==
  LET ops == OpsOf("action")
  IN Flatten([i \in 1..Len(ops) |-> ops[i].body.words])

\* C29: once the action is drawn, every word of the action is on the canvas,
\* in order, whole or cut to ten characters, also the words that follow an
\* over-long word.
C29_NoActionWordLost ==
  OpsOf("action") # <<>> =>
    /\ Len(DrawnActionWords) = Len(request.action.words)
    /\ \A k \in 1..Len(DrawnActionWords) :
         DrawnActionWords[k] \in
           {request.action.words[k], Min(request.action.words[k], ActionWordCut)}

\* C30 as stated: info_y is the larger of the end of the description plus 40
\* and height - 180, and the Deadline row, 32 px high, ends on the card:
\* deadline_y + 32 <= 500, for every title and description. Positions are in
\* thousandths of a pixel.
C30_InfoSectionOnCard ==
  \A i \in 1..Len(OpsOf("deadline_label")) :
    LET row == OpsOf("deadline_label")[i]
    IN /\ info_y = Max(desc_y + 40, 500 - 180)
       /\ row.y * 1000 + row.frac + 32000 <= 500000
====
